---- MODULE Spec2Model ----
(***************************************************************************)
(* Verification model of the penumbra MediaTek flashing driver.            *)
(*                                                                         *)
(* The module holds several specifications over one set of variables:      *)
(*   SpecPort  - the USB port backends: read_exact and the BROM handshake  *)
(*               (connection/backend/{usb,libusb,libusb_exp}_backend.rs)   *)
(*   SpecConn  - the preloader command layer (connection/mod.rs)           *)
(*   SpecFlash - XFlash write_flash / read_flash against a flash device    *)
(*               (da/xflash/flash.rs) and Device::{read,write}_partition   *)
(*   SpecDev   - the Device lifecycle (device.rs)                          *)
(* Every specification leaves the variables of the other parts at their    *)
(* idle values.                                                            *)
(***************************************************************************)
EXTENDS Integers, Sequences, FiniteSets, TLC

VARIABLES
    \* ---- Port (UsbMTKPort) ----
    backend,          \* which backend file is compiled in (cfg features)
    connection_type,  \* UsbMTKPort.connection_type
    is_open,          \* UsbMTKPort.is_open
    hs_pc,            \* handshake(): "idle" | "running" | "ok" | "err"
    step,             \* handshake(): step / i (0-based index of the next byte)
    retry_count,      \* handshake(): retry_count (libusb_backend_exp only)
    tx,               \* bytes written by the running handshake, in order
    n_reads,          \* number of replies read by the running handshake
    last_byte,        \* the reply byte the last handshake iteration acted on
                      \* (NoByte: write failed, read failed or nothing read)
    all_compl,        \* history: every byte of this handshake was delivered and
                      \* answered with exactly its ones-complement
    re_pc,            \* read_exact(): "idle" | "running" | "ok" | "err"
    buf,              \* read_exact(): the caller's buffer (0 = not filled)
    total_read,       \* read_exact(): total_read
    \* ---- Connection (preloader commands) ----
    conn_cmd,         \* the command being run and its arguments
    conn_pc,          \* index of the next step of the command
    conn_ret,         \* "none" | "ok" | "err"
    conn_regs,        \* the local buffers the command has read so far
    conn_val,         \* the value returned with Ok
    conn_log,         \* the port calls the command has made, in order
    \* ---- Device ----
    connected,        \* Device.connected
    connection,       \* Device.connection: "Some" | "None"
    protocol,         \* Device.protocol: "Some" | "None"
    conn_type,        \* Connection.connection_type of the device's connection
    dev_info,         \* DevInfoData behind Device.dev_info
    da_data,          \* Device.da_data
    proto_da,         \* XFlash.da: the DA entry the protocol was built with
    the_device,       \* the device attached to the port
    last_op,          \* the last Device call: name, result, wire I/O, DA upload
    op_req,           \* the partition name and data length given to that call
    op_flash,         \* the functions of flash.rs that call has run
    init_ok,          \* init() has returned Ok at least once
    da_entered,       \* enter_da_mode() has returned Ok at least once
    \* ---- XFlash transfers ----
    xf_call,          \* the Device call in progress and its arguments
    xf_pc,            \* the phase of the transfer
    xf_ret,           \* "none" | "ok" | "err"
    chunk_size,       \* write_flash(): chunk_size
    actual_data,      \* write_flash(): actual_data
    pos,              \* write_flash(): pos
    wf_chunks,        \* the chunk payloads handed to send_data, in order
    buffer,           \* read_flash(): buffer
    final_status,     \* the status write_flash read after its loop
    write_packet_length,  \* XFlash.write_packet_length
    read_packet_length,   \* XFlash.read_packet_length
    flash,            \* the device's flash array
    dev_op,           \* the transfer the device is serving
    dev_pkt,          \* the write packet length the device announced
    op_honest,        \* every reply of this call was the device model's own
    xf_err,           \* the Error of the Err a transfer returned
    rf_log,           \* read_flash(): the port traffic of the loop, in order
    prev_call,        \* the call completed before this one
    \* ---- XFlash::upload_stage1 ----
    s1_file,          \* the copy of upload_stage1 that was built
    s1_pc,            \* "idle" | "send_da" | "jump_da" | "setup" | "done"
    s1_step,          \* index of the next step after jump_da
    s1_ret,           \* "none" | "ok" | the kind of the error returned
    s1_log,           \* the calls upload_stage1 has made, with their outcome
    \* ---- functions of an input alone ----
    fn_call,          \* the function called and its argument
    fn_ret,           \* what it returned, once it has
    \* ---- Xml::send_cmd ----
    xml_cmd,          \* the command given to send_cmd
    xml_pc,           \* the statement send_cmd is at
    xml_ret,          \* "none" | "Ok(true)" | "Ok(false)" | the error's constructor
    xml_log,          \* the frames read and sent by this send_cmd, in order
    \* ---- Xml::download_file / Xml::progress_report ----
    xo_call,          \* the function called and its arguments
    xo_pc,            \* the statement it is at
    xo_ret,           \* "none" | "Ok" | the error's constructor
    xo_log,           \* the frames read and sent by this call, in order
    xo_resp,          \* the frame last read into `resp`
    bytes_sent,       \* download_file(): bytes_sent
    progress_calls,   \* the calls made to the progress callback, in order
    \* ---- DeviceInfo shared by the facade and the protocol ----
    inner,            \* DeviceInfo.inner: the DevInfoData behind the RwLock
    readers,          \* the holders that hold a read guard of the RwLock
    writer,           \* the holder that holds the write guard, or "none"
    last_write,       \* history: the fields as the completed setter calls left them
    h_pc,             \* per holder: the statement its getter or setter is at
    h_op,             \* per holder: the getter or setter it has called
    h_tmp,            \* per holder: the fields cloned or assigned so far
    h_ret,            \* per holder: what its last getter returned
    h_truth,          \* history: last_write when that getter returned
    \* ---- UsbMTKPort: open, close and transfers ----
    port,             \* the UsbMTKPort: its backend and the fields of the struct
    usb_call,         \* the last call on the port: operation, port before it, result, USB transfers
    \* ---- XFlash DeviceCtrl operations on the wire ----
    copy,             \* which copy of the XFlash implementation runs: "mod.rs" | "xflash.rs"
    w_op,             \* the public operation in progress: name and number
    w_pc,             \* index of the next step of the operation, 0 when none runs
    w_ret,            \* what the last operation returned: "none" | "ok" | "err"
    w_regs,           \* the responses the operation holds (emmc_response, ufs_response, resp)
    w_storage,        \* dev_info.storage is Some
    da_storage,       \* the device: the storage it has, "emmc" | "ufs"
    da_st,            \* the device: what it waits for
    da_out,           \* the device: the frames it has sent that the host has not read
    stray,            \* history: the host wrote a frame the device did not expect
    misread,          \* history: the host read a frame sent for an earlier operation
    n_ops             \* number of operations begun

hsVars == <<hs_pc, step, retry_count, tx, n_reads, last_byte, all_compl>>
reVars == <<re_pc, buf, total_read>>
portVars == <<backend, connection_type, is_open, hsVars, reVars>>

connVars == <<conn_cmd, conn_pc, conn_ret, conn_regs, conn_val, conn_log>>

devVars ==
    <<connected, connection, protocol, conn_type, dev_info, da_data, proto_da,
      the_device, last_op, op_req, op_flash, init_ok, da_entered>>

xfVars ==
    <<xf_call, xf_pc, xf_ret, chunk_size, actual_data, pos, wf_chunks, buffer,
      final_status, write_packet_length, read_packet_length, flash, dev_op, dev_pkt,
      op_honest, xf_err, rf_log, prev_call>>

s1Vars == <<s1_file, s1_pc, s1_step, s1_ret, s1_log>>

fnVars == <<fn_call, fn_ret>>

xmlVars == <<xml_cmd, xml_pc, xml_ret, xml_log>>

xoVars == <<xo_call, xo_pc, xo_ret, xo_log, xo_resp, bytes_sent, progress_calls>>

infoVars == <<inner, readers, writer, last_write, h_pc, h_op, h_tmp, h_ret, h_truth>>

usbVars == <<port, usb_call>>

wireVars == <<copy, w_op, w_pc, w_ret, w_regs, w_storage, da_storage, da_st, da_out, stray, misread, n_ops>>

nonPortVars == <<connVars, devVars, xfVars, s1Vars, fnVars, xmlVars, xoVars, infoVars, usbVars, wireVars>>

nonConnVars == <<portVars, devVars, xfVars, s1Vars, fnVars, xmlVars, xoVars, infoVars, usbVars, wireVars>>

nonDevVars == <<portVars, connVars, xfVars, s1Vars, fnVars, xmlVars, xoVars, infoVars, usbVars, wireVars>>

nonXfVars == <<portVars, connVars, devVars, s1Vars, fnVars, xmlVars, xoVars, infoVars, usbVars, wireVars>>

nonS1Vars == <<portVars, devVars, xfVars, fnVars, xmlVars, xoVars, infoVars, usbVars, wireVars>>

nonFnVars == <<portVars, connVars, devVars, xfVars, s1Vars, xmlVars, xoVars, infoVars, usbVars, wireVars>>

nonXmlVars == <<portVars, connVars, devVars, xfVars, s1Vars, fnVars, xoVars, infoVars, usbVars, wireVars>>

nonXoVars == <<portVars, connVars, devVars, xfVars, s1Vars, fnVars, xmlVars, infoVars, usbVars, wireVars>>

nonInfoVars == <<portVars, connVars, devVars, xfVars, s1Vars, fnVars, xmlVars, xoVars, usbVars, wireVars>>

nonUsbVars == <<portVars, connVars, devVars, xfVars, s1Vars, fnVars, xmlVars, xoVars, infoVars, wireVars>>

nonWireVars == <<portVars, connVars, devVars, xfVars, s1Vars, fnVars, xmlVars, xoVars, infoVars, usbVars>>

vars == <<portVars, connVars, devVars, xfVars, s1Vars, fnVars, xmlVars, xoVars, infoVars, usbVars, wireVars>>

\* upload_stage1 has not been called
S1Idle ==
    /\ s1_file = "mod.rs"
    /\ s1_pc = "idle"
    /\ s1_step = 0
    /\ s1_ret = "none"
    /\ s1_log = <<>>

\* no function has been called
NoRet == [done |-> FALSE, val |-> <<>>]

FnCall(fn, arg) == [fn |-> fn, arg |-> arg]

FnIdle ==
    /\ fn_call = FnCall("none", <<>>)
    /\ fn_ret = NoRet

\* send_cmd has not been called
XmlIdle ==
    /\ xml_cmd = ""
    /\ xml_pc = "idle"
    /\ xml_ret = "none"
    /\ xml_log = <<>>

\* neither download_file nor progress_report has been called
XoIdle ==
    /\ xo_call = FnCall("none", [size |-> 0, reader |-> <<>>])
    /\ xo_pc = "idle"
    /\ xo_ret = "none"
    /\ xo_log = <<>>
    /\ xo_resp = <<>>
    /\ bytes_sent = 0
    /\ progress_calls = <<>>

\* nobody uses the DeviceInfo
InfoIdle ==
    /\ inner = <<>>
    /\ readers = {}
    /\ writer = "none"
    /\ last_write = <<>>
    /\ h_pc = <<>>
    /\ h_op = <<>>
    /\ h_tmp = <<>>
    /\ h_ret = <<>>
    /\ h_truth = <<>>

\* no port call has been made
UsbIdle ==
    /\ port = <<>>
    /\ usb_call = <<>>

\* no operation has run on the wire
WireIdle ==
    /\ copy = "none"
    /\ w_op = <<>>
    /\ w_pc = 0
    /\ w_ret = "none"
    /\ w_regs = <<>>
    /\ w_storage = FALSE
    /\ da_storage = "none"
    /\ da_st = <<>>
    /\ da_out = <<>>
    /\ stray = FALSE
    /\ misread = FALSE
    /\ n_ops = 0

----------------------------------------------------------------------------
(* Bounds *)

MaxTx == 5        \* bytes of the handshake transcript that are recorded
MaxBuf == 3       \* longest buffer handed to read_exact
MaxReply == 2     \* longest bulk reply the device queues for one read
MaxId == 2        \* longest soc_id / meid blob a device reports
MaxSize == 3      \* size of the largest partition, in bytes
MaxPkt == 2       \* largest packet length the device announces or sends
MaxDl == 3        \* largest size handed to download_file
MaxFrames == 4    \* frames of a progress report that are followed

----------------------------------------------------------------------------
(* Port: constants of the backends *)

Backends == {"usb_backend", "libusb_backend", "libusb_backend_exp"}
ConnectionType == {"Brom", "Preloader", "Da"}

HANDSHAKE_CMD == <<160, 10, 80, 5>>      \* 0xA0 0x0A 0x50 0x05
HANDSHAKE_RSP == <<95, 245, 175, 250>>   \* 0x5F 0xF5 0xAF 0xFA
startcmd == <<160, 10, 80, 5>>
SEQ == <<10, 80, 5>>
MAX_RETRIES == 100

\* `!b` / `b ^ 0xFF` on a u8
Not8(b) == 255 - b

\* Bytes a device may answer with during the handshake.
HsReplyBytes == {95, 245, 175, 250, 160, 0}
\* Bytes a device may deliver to read_exact (non-zero: 0 marks "not filled").
RxBytes == {90, 165}

RECURSIVE SeqsUpTo(_, _)
SeqsUpTo(S, n) ==
    IF n = 0 THEN {<<>>}
    ELSE LET shorter == SeqsUpTo(S, n - 1)
         IN  shorter \cup {Append(s, x) : s \in {t \in shorter : Len(t) = n - 1}, x \in S}

\* One bulk read as the device and the USB stack decide it: a transfer error
\* (timeout, stall, disconnect) or `cap` bytes at most.
BulkReplies(cap) ==
    {[ok |-> FALSE, data |-> <<>>]} \cup
    {[ok |-> TRUE, data |-> d] : d \in SeqsUpTo(HsReplyBytes, cap)}

NoByte == 0 - 1

\* The byte of a reply the handshake looks at: the last one received.
ActedByte(r) == IF r.ok /\ Len(r.data) > 0 THEN r.data[Len(r.data)] ELSE NoByte

\* Saturating transcript.
Record(log, b) == IF Len(log) < MaxTx THEN Append(log, b) ELSE log
Bump(n) == IF n < MaxTx THEN n + 1 ELSE n

\* write_all on a port: transfers need an open port in usb_backend (writer is
\* None) and libusb_backend_exp (is_open check); libusb_backend has no check.
WriteOutcomes ==
    IF backend \in {"usb_backend", "libusb_backend_exp"} /\ ~is_open
    THEN {"err"} ELSE {"ok", "err"}

----------------------------------------------------------------------------
(* Port: handshake, one loop iteration per backend.                        *)
(* s = step before the iteration, rc = retry_count before it, wr = outcome *)
(* of write_all for the byte, r = outcome of the bulk read that follows.   *)

HsState(pc, s, rc) == [pc |-> pc, step |-> s, retry_count |-> rc]

\* libusb_backend_exp.rs: tail of the loop body and the loop condition
ExpLoopTail(s, rc) ==
    IF rc >= MAX_RETRIES THEN HsState("err", s, rc)
    ELSE IF s < Len(HANDSHAKE_CMD) THEN HsState("running", s, rc)
    ELSE HsState("ok", s, rc)

handshake_exp(s, rc, wr, r) ==
    IF wr = "err" THEN HsState("err", s, rc)
    ELSE IF r.ok /\ Len(r.data) = 1 THEN
        LET byte == r.data[1] IN
        IF byte = HANDSHAKE_CMD[1] /\ s = 0 THEN HsState("ok", s, rc)
        ELSE IF byte = HANDSHAKE_RSP[s + 1] THEN ExpLoopTail(s + 1, 0)
        ELSE ExpLoopTail(0, rc + 1)
    ELSE IF (r.ok /\ Len(r.data) = 0) \/ ~r.ok THEN
        IF rc + 1 < MAX_RETRIES THEN HsState("running", s, rc + 1)
        ELSE ExpLoopTail(s, rc + 1)
    ELSE ExpLoopTail(s, rc + 1)

\* handshake of libusb_backend.rs with the reply compared against the byte
\* sent instead of its complement
handshake_libusb_noNot(s, rc, wr, r) ==
    IF wr = "err" THEN HsState("err", s, rc)
    ELSE IF ~r.ok THEN HsState("err", s, rc)
    ELSE IF Len(r.data) = 0 THEN HsState("err", s, rc)
    ELSE LET expected == startcmd[s + 1]
             handshake_byte == r.data[Len(r.data)]
         IN  IF handshake_byte = expected
             THEN IF s + 1 < Len(startcmd) THEN HsState("running", s + 1, rc)
                  ELSE HsState("ok", s + 1, rc)
             ELSE HsState("running", 0, rc)

\* libusb_backend.rs
handshake_libusb(s, rc, wr, r) ==
    IF wr = "err" THEN HsState("err", s, rc)
    ELSE IF ~r.ok THEN HsState("err", s, rc)
    ELSE IF Len(r.data) = 0 THEN HsState("err", s, rc)
    ELSE LET expected == Not8(startcmd[s + 1])
             handshake_byte == r.data[Len(r.data)]
         IN  IF handshake_byte = startcmd[1] THEN HsState("ok", s, rc)
             ELSE IF handshake_byte = expected
                  THEN IF s + 1 < Len(startcmd) THEN HsState("running", s + 1, rc)
                       ELSE HsState("ok", s + 1, rc)
                  ELSE HsState("running", 0, rc)

\* usb_backend.rs: step 0 is the first loop, steps 1..3 walk SEQ
handshake_usb(s, rc, wr, r) ==
    IF wr = "err" THEN HsState("err", s, rc)
    ELSE IF ~r.ok \/ Len(r.data) # 1 THEN HsState("err", s, rc)
    ELSE LET b == r.data[1] IN
         IF s = 0 THEN
             IF b = 95 THEN HsState("running", 1, rc)
             ELSE IF b = 160 THEN HsState("ok", s, rc)
             ELSE HsState("running", 0, rc)
         ELSE IF b # Not8(SEQ[s]) THEN HsState("err", s, rc)
              ELSE IF s < Len(SEQ) THEN HsState("running", s + 1, rc)
              ELSE HsState("ok", s + 1, rc)

\* The byte the iteration writes.
HsByte(s) ==
    CASE backend = "libusb_backend_exp" -> HANDSHAKE_CMD[s + 1]
      [] backend = "libusb_backend"     -> startcmd[s + 1]
      [] OTHER                          -> IF s = 0 THEN 160 ELSE SEQ[s]

\* Size of the buffer the iteration reads into.
HsReadCap ==
    IF backend = "libusb_backend" THEN (IF MaxReply < 5 THEN MaxReply ELSE 5) ELSE 1

HsIter(s, rc, wr, r) ==
    CASE backend = "libusb_backend_exp" -> handshake_exp(s, rc, wr, r)
      [] backend = "libusb_backend"     -> handshake_libusb(s, rc, wr, r)
      [] OTHER                          -> handshake_usb(s, rc, wr, r)

ReadExactIdle ==
    /\ re_pc' = "idle"
    /\ buf' = <<>>
    /\ total_read' = 0

HandshakeIdle ==
    /\ hs_pc' = "idle"
    /\ step' = 0
    /\ retry_count' = 0
    /\ tx' = <<>>
    /\ n_reads' = 0
    /\ last_byte' = NoByte
    /\ all_compl' = TRUE

PortBusy == hs_pc = "running" \/ re_pc = "running"

\* handshake(): entry. libusb_backend_exp skips the exchange on a DA port and
\* wakes a preloader with one 0xA0 first.
HandshakeBegin ==
    /\ ~PortBusy
    /\ ReadExactIdle
    /\ step' = 0
    /\ retry_count' = 0
    /\ n_reads' = 0
    /\ last_byte' = NoByte
    /\ all_compl' = TRUE
    /\ IF backend = "libusb_backend_exp" /\ connection_type = "Da"
       THEN hs_pc' = "ok" /\ tx' = <<>>
       ELSE IF backend = "libusb_backend_exp" /\ connection_type # "Brom"
       THEN \E wr \in WriteOutcomes :
               IF wr = "ok" THEN hs_pc' = "running" /\ tx' = <<160>>
               ELSE hs_pc' = "err" /\ tx' = <<>>
       ELSE hs_pc' = "running" /\ tx' = <<>>
    /\ UNCHANGED <<backend, connection_type, is_open, nonPortVars>>

\* handshake(): one iteration of the loop (write one byte, read one reply).
HandshakeStep ==
    /\ hs_pc = "running"
    /\ \E wr \in WriteOutcomes, r \in BulkReplies(HsReadCap) :
          LET res == HsIter(step, retry_count, wr, r) IN
          /\ tx' = IF wr = "ok" THEN Record(tx, HsByte(step)) ELSE tx
          /\ n_reads' = IF wr = "ok" THEN Bump(n_reads) ELSE n_reads
          /\ last_byte' = IF wr = "ok" THEN ActedByte(r) ELSE NoByte
          /\ all_compl' = (all_compl /\ wr = "ok" /\ r.ok
                                      /\ r.data = <<Not8(HsByte(step))>>)
          /\ hs_pc' = res.pc
          /\ step' = res.step
          /\ retry_count' = res.retry_count
    /\ UNCHANGED <<backend, connection_type, is_open, reVars, nonPortVars>>

----------------------------------------------------------------------------
(* Port: read_exact *)

\* One bulk read into the rest of the buffer: an error or `cap` bytes at most.
RxReplies(cap) ==
    {[ok |-> FALSE, data |-> <<>>]} \cup
    {[ok |-> TRUE, data |-> d] : d \in SeqsUpTo(RxBytes, cap)}

ReState(pc, total) == [pc |-> pc, total_read |-> total]

ReLoop(len, total) ==
    IF total < len THEN ReState("running", total) ELSE ReState("ok", total)

\* libusb_backend_exp.rs
read_exact_exp(len, total, r) ==
    IF r.ok THEN
        IF Len(r.data) = 0 THEN ReLoop(len, total)
        ELSE ReLoop(len, total + Len(r.data))
    ELSE IF total > 0 THEN ReState("ok", total)
         ELSE ReState("err", total)

\* libusb_backend.rs
read_exact_libusb(len, total, r) ==
    IF r.ok THEN
        IF Len(r.data) = 0 THEN ReLoop(len, total)
        ELSE ReLoop(len, total + Len(r.data))
    ELSE ReState("err", total)

\* usb_backend.rs: AsyncReadExt::read_exact on the endpoint reader
read_exact_usb(len, total, r) ==
    IF r.ok /\ Len(r.data) > 0 THEN ReLoop(len, total + Len(r.data))
    ELSE ReState("err", total)

ReIter(len, total, r) ==
    CASE backend = "libusb_backend_exp" -> read_exact_exp(len, total, r)
      [] backend = "libusb_backend"     -> read_exact_libusb(len, total, r)
      [] OTHER                          -> read_exact_usb(len, total, r)

\* buf[total .. total + n] = data
Fill(b, total, data) ==
    [i \in 1..Len(b) |->
        IF i > total /\ i <= total + Len(data) THEN data[i - total] ELSE b[i]]

ReadExactBegin(len) ==
    /\ ~PortBusy
    /\ HandshakeIdle
    /\ buf' = [i \in 1..len |-> 0]
    /\ total_read' = 0
    /\ re_pc' = IF backend \in {"usb_backend", "libusb_backend_exp"} /\ ~is_open
                THEN "err"
                ELSE ReLoop(len, 0).pc
    /\ UNCHANGED <<backend, connection_type, is_open, nonPortVars>>

ReadExactStep ==
    /\ re_pc = "running"
    /\ \E r \in RxReplies(Len(buf) - total_read) :
          LET res == ReIter(Len(buf), total_read, r) IN
          /\ buf' = IF r.ok THEN Fill(buf, total_read, r.data) ELSE buf
          /\ total_read' = res.total_read
          /\ re_pc' = res.pc
    /\ UNCHANGED <<backend, connection_type, is_open, hsVars, nonPortVars>>

\* open(): a no-op on an open port; otherwise the claim may fail.
Open ==
    /\ ~PortBusy
    /\ ~is_open
    /\ is_open' \in {TRUE, FALSE}
    /\ HandshakeIdle
    /\ ReadExactIdle
    /\ UNCHANGED <<backend, connection_type, nonPortVars>>

Close ==
    /\ ~PortBusy
    /\ is_open
    /\ is_open' = FALSE
    /\ HandshakeIdle
    /\ ReadExactIdle
    /\ UNCHANGED <<backend, connection_type, nonPortVars>>

PortVarsInit ==
    /\ is_open = FALSE
    /\ hs_pc = "idle"
    /\ step = 0
    /\ retry_count = 0
    /\ tx = <<>>
    /\ n_reads = 0
    /\ last_byte = NoByte
    /\ all_compl = TRUE
    /\ re_pc = "idle"
    /\ buf = <<>>
    /\ total_read = 0

\* ---------------------------------------------------------------------
\* Connection: the preloader / BROM commands (connection/mod.rs).
\* A command is a sequence of port calls; ConnStep runs one step of it
\* against a device that may echo faithfully, echo something else, answer
\* any status, stay silent or fail the transfer.
\* ---------------------------------------------------------------------

RECURSIVE to_le_bytes(_, _)
to_le_bytes(x, n) ==
    IF n = 0 THEN <<>> ELSE <<x % 256>> \o to_le_bytes(x \div 256, n - 1)

RECURSIVE to_be_bytes(_, _)
to_be_bytes(x, n) ==
    IF n = 0 THEN <<>> ELSE Append(to_be_bytes(x \div 256, n - 1), x % 256)

RECURSIVE from_le_bytes(_)
from_le_bytes(b) ==
    IF Len(b) = 0 THEN 0 ELSE b[1] + 256 * from_le_bytes(SubSeq(b, 2, Len(b)))

RECURSIVE from_be_bytes(_)
from_be_bytes(b) ==
    IF Len(b) = 0 THEN 0
    ELSE b[Len(b)] + 256 * from_be_bytes(SubSeq(b, 1, Len(b) - 1))

\* connection/command.rs is not part of the sources at hand; SendDa and
\* JumpDa are the values the specification gives, the others are the
\* customary BROM opcodes.  No property depends on the numbers.
Command(name) ==
    CASE name = "SendDa" -> 215
      [] name = "JumpDa" -> 213
      [] name = "GetHwCode" -> 253
      [] name = "GetHwSwVer" -> 252
      [] name = "GetTargetConfig" -> 216
      [] name = "GetSocId" -> 231
      [] name = "GetMeId" -> 225
      [] name = "GetPlCap" -> 251
      [] name = "Read32" -> 209

\* The kinds of step a command is made of.
EchoStep(data) ==
    [k |-> "echo", data |-> data, n |-> Len(data), reg |-> "none", endian |-> "none"]

StatusStep(endian) ==
    [k |-> "status", data |-> <<>>, n |-> 2, reg |-> "none", endian |-> endian]

ReadStep(n, reg) ==
    [k |-> "read", data |-> <<>>, n |-> n, reg |-> reg, endian |-> "none"]

LengthStep ==
    [k |-> "length", data |-> <<>>, n |-> 4, reg |-> "len", endian |-> "be"]

WriteStep(data) ==
    [k |-> "write", data |-> data, n |-> Len(data), reg |-> "none", endian |-> "none"]

\* the address goes out big-endian
jump_da_be(address) ==
    << EchoStep(<<Command("JumpDa")>>),
       EchoStep(to_be_bytes(address, 4)),
       StatusStep("le") >>

jump_da(address) ==
    << EchoStep(<<Command("JumpDa")>>),
       EchoStep(to_le_bytes(address, 4)),
       StatusStep("le") >>

send_da(da_bytes, da_len, address, sig_len) ==
    << EchoStep(<<Command("SendDa")>>),
       EchoStep(to_be_bytes(address, 4)),
       EchoStep(to_be_bytes(da_len, 4)),
       EchoStep(to_be_bytes(sig_len, 4)),
       StatusStep("be"),
       WriteStep(da_bytes),
       ReadStep(2, "b"),
       StatusStep("be") >>

get_hw_code ==
    << EchoStep(<<Command("GetHwCode")>>), ReadStep(2, "a"), StatusStep("le") >>

get_hw_sw_ver ==
    << EchoStep(<<Command("GetHwSwVer")>>),
       ReadStep(2, "a"), ReadStep(2, "b"), ReadStep(2, "c"),
       StatusStep("le") >>

\* the payload is returned without the status word being read
get_soc_id_nostatus(regs) ==
    << EchoStep(<<Command("GetSocId")>>),
       LengthStep,
       ReadStep(from_be_bytes(regs.len), "data") >>

get_soc_id(regs) ==
    << EchoStep(<<Command("GetSocId")>>),
       LengthStep,
       ReadStep(from_be_bytes(regs.len), "data"),
       StatusStep("le") >>

get_meid(regs) ==
    << EchoStep(<<Command("GetMeId")>>),
       LengthStep,
       ReadStep(from_be_bytes(regs.len), "data"),
       StatusStep("le") >>

get_target_config ==
    << EchoStep(<<Command("GetTargetConfig")>>), ReadStep(4, "a"), StatusStep("le") >>

get_pl_capabilities ==
    << EchoStep(<<Command("GetPlCap")>>), ReadStep(4, "a"), ReadStep(4, "b") >>

\* DeviceInfo (core/devinfo.rs): the flags of target_config
sbc_enabled(target_config) == (target_config % 2) # 0

sla_enabled(target_config) == ((target_config \div 2) % 2) # 0

daa_enabled(target_config) == ((target_config \div 4) % 2) # 0

\* data.chunks_mut(4): ceil(size / 4) reads, the last one possibly short
Chunks4(size) ==
    [i \in 1..((size + 3) \div 4) |->
        ReadStep(IF size - 4 * (i - 1) < 4 THEN size - 4 * (i - 1) ELSE 4, "data")]

read32(address, size) ==
    << EchoStep(<<Command("Read32")>>),
       EchoStep(to_le_bytes(address, 4)),
       EchoStep(to_le_bytes(size, 4)),
       StatusStep("le") >>
    \o Chunks4(size)
    \o << StatusStep("le") >>

Script(cmd, regs) ==
    CASE cmd.name = "jump_da" -> jump_da(cmd.address)
      [] cmd.name = "send_da" -> send_da(cmd.da_data, cmd.size, cmd.address, cmd.sig_len)
      [] cmd.name = "get_hw_code" -> get_hw_code
      [] cmd.name = "get_hw_sw_ver" -> get_hw_sw_ver
      [] cmd.name = "get_soc_id" -> get_soc_id(regs)
      [] cmd.name = "get_meid" -> get_meid(regs)
      [] cmd.name = "get_target_config" -> get_target_config
      [] cmd.name = "get_pl_capabilities" -> get_pl_capabilities
      [] cmd.name = "read32" -> read32(cmd.address, cmd.size)

\* What the command hands back with Ok, as a sequence of values.
ReturnValue(cmd, regs) ==
    CASE cmd.name = "get_hw_code" -> <<from_be_bytes(regs.a)>>
      [] cmd.name = "get_hw_sw_ver" ->
            <<from_le_bytes(regs.a), from_le_bytes(regs.b), from_le_bytes(regs.c)>>
      [] cmd.name \in {"get_soc_id", "get_meid", "read32"} -> regs.data
      [] cmd.name \in {"get_target_config", "get_pl_capabilities"} ->
            <<from_be_bytes(regs.a)>>
      [] OTHER -> <<>>

\* ---- the calls a caller can make ----
Addresses == {2101248, 1073741824}      \* 0x00201000, 0x40000000
DaBlobs == {<<>>, <<7, 8>>}
SigLens == {0, 256}
ReadSizes == {4, 6}

Cmd0(name) ==
    [name |-> name, address |-> 0, size |-> 0, da_data |-> <<>>, sig_len |-> 0]

NoCmd == Cmd0("none")

ConnCalls ==
    {Cmd0(n) : n \in {"get_hw_code", "get_hw_sw_ver", "get_soc_id", "get_meid",
                      "get_target_config", "get_pl_capabilities"}}
    \cup {[Cmd0("jump_da") EXCEPT !.address = a] : a \in Addresses}
    \cup {[Cmd0("read32") EXCEPT !.address = a, !.size = s] :
            a \in Addresses, s \in ReadSizes}
    \cup {[Cmd0("send_da") EXCEPT !.address = a, !.size = Len(d), !.da_data = d,
                                  !.sig_len = g] :
            a \in Addresses, d \in DaBlobs, g \in SigLens}

\* ---- the device's side ----
PayloadBytes == {1, 2}

Payloads(n) == [1..n -> PayloadBytes]

CorruptLast(d) == [i \in 1..Len(d) |-> IF i = Len(d) THEN Not8(d[i]) ELSE d[i]]

\* first byte echoed, the rest of the buffer left at its initial zeroes
ZeroTail(d) == [i \in 1..Len(d) |-> IF i = 1 THEN d[i] ELSE 0]

Reply(ok, timeout, data) == [ok |-> ok, timeout |-> timeout, data |-> data]

ReadReplies(st) ==
    {Reply(FALSE, FALSE, <<>>)}
    \cup (CASE st.k = "echo" ->
                {Reply(TRUE, FALSE, d) :
                    d \in {st.data, CorruptLast(st.data), ZeroTail(st.data)}}
            [] st.k = "status" ->
                {Reply(TRUE, FALSE, d) : d \in {<<0, 0>>, <<0, 1>>, <<1, 0>>}}
            [] st.k = "length" ->
                {Reply(FALSE, TRUE, <<>>)}
                \cup {Reply(TRUE, FALSE, to_be_bytes(l, 4)) : l \in 0..MaxId}
            [] OTHER ->
                {Reply(TRUE, FALSE, d) :
                    d \in Payloads(st.n) \cup (IF st.n = 4 THEN {<<0, 0, 0, 7>>} ELSE {})})

\* ---- running a command ----
PortCall(op, n, data, ok) == [op |-> op, n |-> n, data |-> data, ok |-> ok]

RegNames == {"a", "b", "c", "len", "data"}

NoRegs == [r \in RegNames |-> <<>>]

ConnIdle ==
    /\ conn_cmd = NoCmd
    /\ conn_pc = 0
    /\ conn_ret = "none"
    /\ conn_regs = NoRegs
    /\ conn_val = <<>>
    /\ conn_log = <<>>

check_first(data, expected_data) ==
    Len(data) = Len(expected_data) /\ data[1] = expected_data[1]

check(data, expected_data) == data = expected_data

\* the `?` / `return Err(..)` exit
ConnFail(log2) ==
    /\ conn_ret' = "err"
    /\ conn_log' = log2
    /\ UNCHANGED <<conn_cmd, conn_pc, conn_regs, conn_val>>

\* an early `return Ok(value)`
ConnReturn(regs2, log2, value) ==
    /\ conn_ret' = "ok"
    /\ conn_val' = value
    /\ conn_regs' = regs2
    /\ conn_log' = log2
    /\ UNCHANGED <<conn_cmd, conn_pc>>

\* fall through to the next statement, or to the final Ok(..)
ConnAdvance(regs2, log2) ==
    IF conn_pc = Len(Script(conn_cmd, regs2))
    THEN ConnReturn(regs2, log2, ReturnValue(conn_cmd, regs2))
    ELSE /\ conn_pc' = conn_pc + 1
         /\ conn_regs' = regs2
         /\ conn_log' = log2
         /\ UNCHANGED <<conn_cmd, conn_ret, conn_val>>

echo(st) ==
    \E w \in BOOLEAN :
        LET wlog == Append(conn_log, PortCall("write_all", st.n, st.data, w))
        IN  IF ~w THEN ConnFail(wlog)
            ELSE \E r \in ReadReplies(st) :
                    LET rlog == Append(wlog, PortCall("read_exact", st.n, r.data, r.ok))
                    IN  IF ~r.ok THEN ConnFail(rlog)
                        ELSE IF check(r.data, st.data)
                             THEN ConnAdvance(conn_regs, rlog)
                             ELSE ConnFail(rlog)

\* the status word is read and not looked at
ReadStatus_any(st) ==
    \E r \in ReadReplies(st) :
        LET rlog == Append(conn_log, PortCall("read_exact", st.n, r.data, r.ok))
        IN  IF ~r.ok THEN ConnFail(rlog) ELSE ConnAdvance(conn_regs, rlog)

ReadStatus(st) ==
    \E r \in ReadReplies(st) :
        LET rlog == Append(conn_log, PortCall("read_exact", st.n, r.data, r.ok))
            status_val == IF st.endian = "le" THEN from_le_bytes(r.data)
                          ELSE from_be_bytes(r.data)
        IN  IF ~r.ok THEN ConnFail(rlog)
            ELSE IF status_val # 0 THEN ConnFail(rlog)
                 ELSE ConnAdvance(conn_regs, rlog)

ReadInto(st) ==
    \E r \in ReadReplies(st) :
        LET rlog == Append(conn_log, PortCall("read_exact", st.n, r.data, r.ok))
            regs2 == [conn_regs EXCEPT ![st.reg] = @ \o r.data]
        IN  IF ~r.ok THEN ConnFail(rlog)
            ELSE ConnAdvance(regs2, rlog)

\* `timeout(Duration::from_millis(500), self.port.read_exact(&mut length_bytes))`:
\* Ok(Ok(_)) goes on, Ok(Err(e)) returns Err(e), Err(_) returns Ok(vec![]).
\* The entry of the log also tells whether the time ran out.
ReadLength(st) ==
    \E r \in ReadReplies(st) :
        LET rlog == Append(conn_log, [op |-> "read_exact", n |-> st.n, data |-> r.data,
                                      ok |-> r.ok, elapsed |-> r.timeout])
            regs2 == [conn_regs EXCEPT ![st.reg] = @ \o r.data]
        IN  IF r.timeout THEN ConnReturn(conn_regs, rlog, <<>>)
            ELSE IF ~r.ok THEN ConnFail(rlog)
                 ELSE ConnAdvance(regs2, rlog)

WriteOut(st) ==
    \E w \in BOOLEAN :
        LET wlog == Append(conn_log, PortCall("write_all", st.n, st.data, w))
        IN  IF ~w THEN ConnFail(wlog) ELSE ConnAdvance(conn_regs, wlog)

ConnBegin ==
    /\ conn_pc = 0 \/ conn_ret # "none"
    /\ \E c \in ConnCalls : conn_cmd' = c
    /\ conn_pc' = 1
    /\ conn_ret' = "none"
    /\ conn_regs' = NoRegs
    /\ conn_val' = <<>>
    /\ conn_log' = <<>>
    /\ UNCHANGED nonConnVars

ConnStep ==
    /\ conn_pc > 0
    /\ conn_ret = "none"
    /\ LET st == Script(conn_cmd, conn_regs)[conn_pc]
       IN  CASE st.k = "echo" -> echo(st)
             [] st.k = "status" -> ReadStatus(st)
             [] st.k = "read" -> ReadInto(st)
             [] st.k = "length" -> ReadLength(st)
             [] st.k = "write" -> WriteOut(st)
    /\ UNCHANGED nonConnVars

\* ---------------------------------------------------------------------
\* XFlash (DA v5): framing, status words and the flash transfers
\* (da/xflash/mod.rs, da/xflash/flash.rs), driven through
\* Device::write_partition / read_partition / write_offset (device.rs)
\* against a device that keeps a flash array.  The device answers every
\* read of the host; a reply that is not the one the device model gives
\* clears op_honest.
\* ---------------------------------------------------------------------

MagicLE == <<239, 238, 238, 254>>        \* Cmd::Magic = 0xFEEEEEEF
SyncSignalLE == <<83, 89, 78, 67>>       \* Cmd::SyncSignal = 0x434E5953
Zero32 == <<0, 0, 0, 0>>
ErrCodeLE == <<1, 0, 1, 192>>            \* some device error, 0xC0010001
NoStatus == <<>>
NoLen == 0 - 1                           \* Option::None of a packet length

Cmd(name) ==
    CASE name = "WriteData" -> 65540         \* 0x010004
      [] name = "ReadData" -> 65541          \* 0x010005
      [] name = "DeviceCtrl" -> 65545        \* 0x010009
      [] name = "GetPacketLength" -> 262151  \* 0x040007
      [] name = "SetupEnvironment" -> 65792  \* 0x010100
      [] name = "SetupHwInitParams" -> 65793 \* 0x010101

Min(a, b) == IF a < b THEN a ELSE b

RECURSIVE Sum(_)
Sum(q) ==
    IF Len(q) = 0 THEN 0
    ELSE IF Len(q) = 1 THEN q[1]
    ELSE Sum(SubSeq(q, 1, Len(q) \div 2)) + Sum(SubSeq(q, Len(q) \div 2 + 1, Len(q)))

Zeros(n) == [i \in 1..n |-> 0]

generate_header(data) ==
    MagicLE \o to_le_bytes(1, 4) \o to_le_bytes(Len(data), 4)

parse_header(hdr) ==
    [ok |-> SubSeq(hdr, 1, 4) = MagicLE,
     len |-> from_le_bytes(SubSeq(hdr, 9, 12))]

\* ---- what the device can put on the wire ----
DevFrame(payload) ==
    [kind |-> "frame", hdr |-> generate_header(payload), payload |-> payload]

BadMagicFrame ==
    [kind |-> "frame", hdr |-> <<0>> \o Tail(generate_header(<<>>)), payload |-> <<>>]

NoFrame(kind) == [kind |-> kind, hdr |-> <<>>, payload |-> <<>>]

\* a status word: the device model's own, or one of the other answers
StatusReplies(code) ==
    {DevFrame(code), DevFrame(MagicLE), DevFrame(SyncSignalLE),
     DevFrame(ErrCodeLE), BadMagicFrame, NoFrame("timeout")}

StatusRepliesOk == StatusReplies(Zero32)

StatusRepliesErr == StatusReplies(ErrCodeLE)

\* the answer to GetPacketLength: write length, then read length
DevAnnounce(w) == to_le_bytes(w, 4) \o to_le_bytes(w + 1, 4)

PacketLengthReplies(w) ==
    {DevFrame(DevAnnounce(w)), DevFrame(to_le_bytes(w, 4)), BadMagicFrame,
     NoFrame("ioerr")}

\* ---- XFlash::get_status / read_data ----
\* a 4-byte status equal to the magic is not taken for an acknowledgment
decode_status_nomap(len, data) ==
    CASE len = 2 -> data \o <<0, 0>>
      [] len = 4 -> data
      [] len # 2 /\ len # 4 /\ Len(data) >= 4 -> SubSeq(data, 1, 4)
      [] len # 2 /\ len # 4 /\ Len(data) < 4 /\ Len(data) > 0 -> <<data[1], 0, 0, 0>>
      [] OTHER -> <<255, 255, 255, 255>>

decode_status(len, data) ==
    CASE len = 2 -> data \o <<0, 0>>
      [] len = 4 -> IF data = MagicLE THEN Zero32 ELSE data
      [] len # 2 /\ len # 4 /\ Len(data) >= 4 -> SubSeq(data, 1, 4)
      [] len # 2 /\ len # 4 /\ Len(data) < 4 /\ Len(data) > 0 -> <<data[1], 0, 0, 0>>
      [] OTHER -> <<255, 255, 255, 255>>

get_status(r) ==
    IF r.kind # "frame" THEN [ok |-> FALSE, status |-> NoStatus]
    ELSE IF ~parse_header(r.hdr).ok THEN [ok |-> FALSE, status |-> NoStatus]
    ELSE LET status == decode_status(parse_header(r.hdr).len, r.payload)
         IN  [ok |-> status = Zero32 \/ status = SyncSignalLE, status |-> status]

\* `let status = get_status()?; if status != 0 { return Err(..) }`
StatusIsZero(r) == get_status(r).ok /\ get_status(r).status = Zero32

read_data(r) ==
    IF r.kind # "frame" THEN [ok |-> FALSE, data |-> <<>>]
    ELSE IF ~parse_header(r.hdr).ok THEN [ok |-> FALSE, data |-> <<>>]
    ELSE [ok |-> TRUE, data |-> r.payload]

\* ---- the flash parameter block and its reading by the device ----
StorageEmmc == 1      \* storage type of eMMC
UserPart == 8         \* partition kind of the eMMC user area

FlashParam(storage_type, partition_type, addr, size) ==
    to_le_bytes(storage_type, 4) \o to_le_bytes(partition_type, 4)
    \o to_le_bytes(addr, 8) \o to_le_bytes(size, 8) \o Zeros(32)

DevOnCmd(op, payload) ==
    [op EXCEPT !.kind = IF from_le_bytes(payload) = Cmd("WriteData") THEN "write"
                        ELSE IF from_le_bytes(payload) = Cmd("ReadData") THEN "read"
                        ELSE "idle"]

DevOnParam(op, param) ==
    [op EXCEPT !.addr = from_le_bytes(SubSeq(param, 9, 16)),
               !.size = from_le_bytes(SubSeq(param, 17, 24)),
               !.off = 0]

DevIdle == [kind |-> "idle", addr |-> 0, size |-> 0, off |-> 0]

\* the device takes a chunk when its checksum is right and it fits
DevAccepts(op, checksum_bytes, chunk) ==
    /\ op.kind = "write"
    /\ from_le_bytes(checksum_bytes) = Sum(chunk) % 65536
    /\ op.off + Len(chunk) <= op.size

DevStore(fl, op, chunk) ==
    [a \in DOMAIN fl |->
        IF a >= op.addr + op.off /\ a < op.addr + op.off + Len(chunk)
        THEN chunk[a - (op.addr + op.off) + 1] ELSE fl[a]]

DevRange(fl, from, n) == [i \in 1..n |-> fl[from + i - 1]]

DataReplies(fl, op) ==
    {DevFrame(DevRange(fl, op.addr + op.off, n)) :
        n \in 1..Min(MaxPkt, op.size - op.off)}
    \cup {DevFrame(<<>>), BadMagicFrame, NoFrame("ioerr")}

\* ---- partitions and the calls a caller makes ----
PartitionTable ==
    << [name |-> "lk", address |-> 0, size |-> 1],
       [name |-> "boot", address |-> 1, size |-> MaxSize] >>

FlashSize == MaxSize + 1

ErasedFlash == [a \in 0..(FlashSize - 1) |-> 255]

Pattern(n) == [i \in 1..n |-> i]

Files == {Pattern(n) : n \in 0..(MaxSize + 1)}

NoPartition == [name |-> "", address |-> 0, size |-> 0]

get_partition(partitions, name) ==
    IF \E i \in 1..Len(partitions) : partitions[i].name = name
    THEN partitions[CHOOSE i \in 1..Len(partitions) :
                        /\ partitions[i].name = name
                        /\ \A j \in 1..(i - 1) : partitions[j].name # name]
    ELSE NoPartition

Call(kind, name, addr, size, data) ==
    [kind |-> kind, name |-> name, addr |-> addr, size |-> size, data |-> data]

NoCall == Call("none", "", 0, 0, <<>>)

NoPrev == [kind |-> "none", name |-> "", data |-> <<>>]

\* ---- write_flash locals ----
Resize_ff(data, size) ==
    IF Len(data) < size THEN data \o [i \in 1..(size - Len(data)) |-> 255]
    ELSE SubSeq(data, 1, size)

Resize(data, size) ==
    IF Len(data) < size THEN data \o Zeros(size - Len(data))
    ELSE SubSeq(data, 1, size)

PacketEnd_over(p, chunk, len) == Min(p + chunk + 1, len)

PacketEnd(p, chunk, len) == Min(p + chunk, len)

\* ---- the state a transfer works on, as one record ----
XfCur ==
    [call |-> xf_call, pc |-> xf_pc, ret |-> xf_ret,
     chunk_size |-> chunk_size, actual_data |-> actual_data, pos |-> pos,
     chunks |-> wf_chunks, buffer |-> buffer, final_status |-> final_status,
     write_packet_length |-> write_packet_length,
     read_packet_length |-> read_packet_length,
     flash |-> flash, dev_op |-> dev_op, dev_pkt |-> dev_pkt,
     honest |-> op_honest, err |-> xf_err, log |-> rf_log]

XfSet(o) ==
    /\ xf_call' = o.call
    /\ xf_pc' = o.pc
    /\ xf_ret' = o.ret
    /\ chunk_size' = o.chunk_size
    /\ actual_data' = o.actual_data
    /\ pos' = o.pos
    /\ wf_chunks' = o.chunks
    /\ buffer' = o.buffer
    /\ final_status' = o.final_status
    /\ write_packet_length' = o.write_packet_length
    /\ read_packet_length' = o.read_packet_length
    /\ flash' = o.flash
    /\ dev_op' = o.dev_op
    /\ dev_pkt' = o.dev_pkt
    /\ op_honest' = o.honest
    /\ xf_err' = o.err
    /\ rf_log' = o.log

\* the Error values the transfers build: Error::io(..) and the `?` of a port
\* call, Error::XFlash(XFlashError::from_code(status)), the others
NoError == [kind |-> "none"]

IoError == [kind |-> "io"]

XFlashError(status) == [kind |-> "xflash", code |-> status]

OtherError == [kind |-> "other"]

\* the Err of get_status()
StatusError(r) ==
    IF r.kind # "frame" \/ ~parse_header(r.hdr).ok THEN IoError
    ELSE XFlashError(get_status(r).status)

\* an early return with Err; the device drops the transfer
XfFail(s) ==
    [s EXCEPT !.ret = "err", !.pc = "done", !.honest = FALSE, !.dev_op = DevIdle,
              !.err = OtherError]

\* `?` on a port call or on get_status(), and
\* `return Err(Error::XFlash(XFlashError::from_code(status)))`
XfFailWith(s, e) == [XfFail(s) EXCEPT !.err = e]

XfOk(s, honest) ==
    [s EXCEPT !.ret = "ok", !.pc = "done", !.honest = s.honest /\ honest,
              !.dev_op = DevIdle]

\* a step that went through
XfGo(s, honest, pc) ==
    [s EXCEPT !.pc = pc, !.honest = s.honest /\ honest]

\* ---- devctrl(GetPacketLength, None), then get_packet_length ----
devctrl_cmd(s, w, r) ==
    IF ~w THEN XfFail(s)
    ELSE IF ~StatusIsZero(r) THEN XfFail(s)
    ELSE XfGo(s, r = DevFrame(Zero32), "devctrl_sub")

devctrl_sub(s, w, r) ==
    IF ~w THEN XfFail(s)
    ELSE IF ~StatusIsZero(r) THEN XfFail(s)
    ELSE XfGo(s, r = DevFrame(Zero32), "devctrl_data")

get_packet_length(s, d, r) ==
    LET packet_length == read_data(d).data
        write_len == from_le_bytes(SubSeq(packet_length, 1, 4))
        read_len == from_le_bytes(SubSeq(packet_length, 5, 8))
    IN  IF ~read_data(d).ok THEN XfFail(s)
        ELSE IF ~StatusIsZero(r) THEN XfFail(s)
        ELSE IF Len(packet_length) < 8 THEN XfFail(s)
        ELSE [XfGo(s, r = DevFrame(Zero32), "write_cmd")
                EXCEPT !.write_packet_length = write_len,
                       !.chunk_size = write_len]

get_write_packet_length(s) ==
    IF s.read_packet_length # NoLen
    THEN [s EXCEPT !.chunk_size = s.read_packet_length, !.pc = "write_cmd"]
    ELSE [s EXCEPT !.pc = "devctrl_cmd"]

\* ---- write_flash ----
\* send_cmd(WriteData) and its status
write_cmd(s, w, r) ==
    LET dev == [s EXCEPT !.dev_op = DevOnCmd(DevIdle, to_le_bytes(Cmd("WriteData"), 4))]
    IN  IF ~w THEN XfFail(s)
        ELSE IF ~StatusIsZero(r) THEN XfFail(s)
        ELSE [XfGo(dev, r = DevFrame(Zero32), "write_param")
                EXCEPT !.actual_data = Resize(s.call.data, s.call.size)]

\* send_data(param), which reads a status itself
write_param(s, w, r) ==
    LET param == FlashParam(1, UserPart, s.call.addr, s.call.size)
        dev == [s EXCEPT !.dev_op = DevOnParam(s.dev_op, param)]
    IN  IF ~w THEN XfFail(s)
        ELSE IF ~StatusIsZero(r) THEN XfFail(s)
        ELSE [XfGo(dev, r = DevFrame(Zero32),
                   IF 0 >= Len(s.actual_data) THEN "write_final" ELSE "write_chunk")
                EXCEPT !.pos = 0]

\* one turn of the loop: send(0), send(checksum), send_data(chunk)
WfChunkOf(s) ==
    SubSeq(s.actual_data, s.pos + 1,
           PacketEnd(s.pos, s.chunk_size, Len(s.actual_data)))

\* the sum is sent without the `& 0xFFFF`
WfChecksum_nomask(chunk) == to_le_bytes(Sum(chunk), 4)

WfChecksum(chunk) == to_le_bytes(Sum(chunk) % 65536, 4)

WfTaken(s) == DevAccepts(s.dev_op, WfChecksum(WfChunkOf(s)), WfChunkOf(s))

write_chunk(s, w, r) ==
    LET packet_end == PacketEnd(s.pos, s.chunk_size, Len(s.actual_data))
        chunk == WfChunkOf(s)
        dev == [s EXCEPT !.chunks = Append(s.chunks, chunk),
                         !.flash = IF WfTaken(s) THEN DevStore(s.flash, s.dev_op, chunk)
                                   ELSE s.flash,
                         !.dev_op = IF WfTaken(s)
                                    THEN [s.dev_op EXCEPT !.off = @ + Len(chunk)]
                                    ELSE s.dev_op]
    IN  IF ~w THEN XfFailWith(s, IoError)
        ELSE IF ~StatusIsZero(r) THEN XfFailWith(dev, StatusError(r))
        ELSE [XfGo(dev, WfTaken(s) /\ r = DevFrame(Zero32),
                   IF packet_end >= Len(s.actual_data) THEN "write_final"
                   ELSE "write_chunk")
                EXCEPT !.pos = packet_end]

\* the status after the loop
WfComplete(s) == s.dev_op.kind = "write" /\ s.dev_op.off = s.dev_op.size

write_final(s, r) ==
    LET seen == [s EXCEPT !.final_status = get_status(r).status]
    IN  IF ~get_status(r).ok THEN XfFailWith(seen, StatusError(r))
        ELSE IF get_status(r).status # Zero32
             THEN XfFailWith(seen, XFlashError(get_status(r).status))
        ELSE XfOk(seen, WfComplete(s) /\ r = DevFrame(Zero32))

\* ---- read_flash ----
read_cmd(s, w, r) ==
    LET dev == [s EXCEPT !.dev_op = DevOnCmd(DevIdle, to_le_bytes(Cmd("ReadData"), 4))]
    IN  IF ~w THEN XfFail(s)
        ELSE IF ~StatusIsZero(r) THEN XfFail(s)
        ELSE XfGo(dev, r = DevFrame(Zero32), "read_param")

\* send_data(param) with its own status, then the status read_flash reads
read_param(s, w, r1, r2) ==
    LET param == FlashParam(StorageEmmc, UserPart, s.call.addr, s.call.size)
        dev == [s EXCEPT !.dev_op = DevOnParam(s.dev_op, param)]
    IN  IF ~w THEN XfFail(s)
        ELSE IF ~StatusIsZero(r1) THEN XfFail(s)
        ELSE IF ~StatusIsZero(r2) THEN XfFail(s)
        ELSE [XfGo(dev, r1 = DevFrame(Zero32) /\ r2 = DevFrame(Zero32), "read_chunk")
                EXCEPT !.buffer = <<>>]

\* the port traffic of the loop: read_data(), the acknowledgement (a header
\* and four zero bytes, flushed), get_status()
RfEvent(ev, data, ok) == [ev |-> ev, data |-> data, ok |-> ok]

RfRead(d) == RfEvent("read_data", read_data(d).data, read_data(d).ok)

RfAck(w) == RfEvent("ack", <<0, 0, 0, 0>>, w)

RfStatus(r) == RfEvent("get_status", get_status(r).status, get_status(r).ok)

\* the acknowledgement is written before the frame is looked at
read_chunk_ackfirst(s, d, w, r) ==
    LET chunk == read_data(d).data
        h == Len(chunk) > 0 /\ r = DevFrame(Zero32)
        dev == [s EXCEPT !.buffer = s.buffer \o chunk,
                         !.dev_op = [s.dev_op EXCEPT !.off = @ + Len(chunk)],
                         !.log = s.log \o <<RfRead(d), RfAck(w), RfStatus(r)>>]
    IN  IF ~read_data(d).ok THEN [XfFail(s) EXCEPT !.log = Append(s.log, RfRead(d))]
        ELSE IF ~w THEN [XfFail(dev) EXCEPT !.log = s.log \o <<RfRead(d), RfAck(w)>>]
        ELSE IF Len(chunk) = 0
             THEN [XfOk(s, FALSE) EXCEPT !.log = s.log \o <<RfRead(d), RfAck(w)>>]
        ELSE IF ~get_status(r).ok THEN XfFail(dev)
        ELSE IF get_status(r).status # Zero32 THEN XfOk(dev, h)
        ELSE IF Len(dev.buffer) >= s.call.size THEN XfOk(dev, h)
        ELSE XfGo(dev, h, "read_chunk")

\* one turn of the loop: read_data, acknowledge, status
read_chunk(s, d, w, r) ==
    LET chunk == read_data(d).data
        h == Len(chunk) > 0 /\ r = DevFrame(Zero32)
        dev == [s EXCEPT !.buffer = s.buffer \o chunk,
                         !.dev_op = [s.dev_op EXCEPT !.off = @ + Len(chunk)],
                         !.log = s.log \o <<RfRead(d), RfAck(w), RfStatus(r)>>]
    IN  IF ~read_data(d).ok THEN [XfFail(s) EXCEPT !.log = Append(s.log, RfRead(d))]
        ELSE IF Len(chunk) = 0 THEN [XfOk(s, FALSE) EXCEPT !.log = Append(s.log, RfRead(d))]
        ELSE IF ~w THEN [XfFail(dev) EXCEPT !.log = s.log \o <<RfRead(d), RfAck(w)>>]
        ELSE IF ~get_status(r).ok THEN XfFail(dev)
        ELSE IF get_status(r).status # Zero32 THEN XfOk(dev, h)
        ELSE IF Len(dev.buffer) >= s.call.size THEN XfOk(dev, h)
        ELSE XfGo(dev, h, "read_chunk")

\* ---- Device: the checks made before a transfer starts (device.rs) ----
ensure_da_mode_again ==
    IF ~connected THEN "err"
    ELSE IF protocol = "None" THEN "err"
    ELSE "enter"

ensure_da_mode ==
    IF ~connected THEN "err"
    ELSE IF protocol = "None" THEN "err"
    ELSE IF conn_type # "Da" THEN "enter"
    ELSE "pass"

XfFresh(call) ==
    [XfCur EXCEPT !.call = call, !.pc = "done", !.ret = "none",
                  !.chunk_size = 0, !.actual_data = <<>>, !.pos = 0,
                  !.chunks = <<>>, !.buffer = <<>>, !.final_status = NoStatus,
                  !.honest = TRUE, !.dev_op = DevIdle, !.err = NoError,
                  !.log = <<>>]

\* what is remembered of the call just completed: a write_partition that
\* returned Ok against the device model
XfSummary ==
    IF xf_pc = "done" /\ xf_call.kind = "write_partition" /\ xf_ret = "ok" /\ op_honest
    THEN [kind |-> xf_call.kind, name |-> xf_call.name, data |-> xf_call.data]
    ELSE NoPrev

XfCanBegin ==
    /\ xf_pc \in {"idle", "done"}
    /\ ensure_da_mode = "pass"

XfIdle ==
    /\ xf_call = NoCall
    /\ xf_pc = "idle"
    /\ xf_ret = "none"
    /\ chunk_size = 0
    /\ actual_data = <<>>
    /\ pos = 0
    /\ wf_chunks = <<>>
    /\ buffer = <<>>
    /\ final_status = NoStatus
    /\ write_packet_length = NoLen
    /\ read_packet_length = NoLen
    /\ flash = ErasedFlash
    /\ dev_op = DevIdle
    /\ op_honest = TRUE
    /\ xf_err = NoError
    /\ rf_log = <<>>
    /\ prev_call = NoPrev

write_partition(name, data) ==
    LET part == get_partition(dev_info.partitions, name)
        s == XfFresh(Call("write_partition", name, part.address, part.size, data))
    IN  IF part = NoPartition THEN XfFail(s)
        ELSE IF Len(data) > part.size THEN XfFail(s)
        ELSE IF dev_info.storage = "None" THEN XfFail(s)
        ELSE get_write_packet_length(s)

read_partition(name) ==
    LET part == get_partition(dev_info.partitions, name)
        s == XfFresh(Call("read_partition", name, part.address, part.size, <<>>))
    IN  IF part = NoPartition THEN XfFail(s)
        ELSE IF dev_info.storage = "None" THEN XfFail(s)
        ELSE [s EXCEPT !.pc = "read_cmd"]

write_offset(address, size, data) ==
    get_write_packet_length(XfFresh(Call("write_offset", "", address, size, data)))

WritePartition ==
    /\ XfCanBegin
    /\ \E name \in {"lk", "boot", "nope"}, data \in Files :
            XfSet(write_partition(name, data))
    /\ prev_call' = XfSummary
    /\ UNCHANGED nonXfVars

ReadPartition ==
    /\ XfCanBegin
    /\ \E name \in {"lk", "boot", "nope"} : XfSet(read_partition(name))
    /\ prev_call' = XfSummary
    /\ UNCHANGED nonXfVars

WriteOffset ==
    /\ XfCanBegin
    /\ \E size \in 0..MaxSize : XfSet(write_offset(1, size, Pattern(MaxSize + 1)))
    /\ prev_call' = XfSummary
    /\ UNCHANGED nonXfVars

DevCtrlCmd ==
    /\ xf_pc = "devctrl_cmd"
    /\ \E w \in BOOLEAN, r \in StatusRepliesOk : XfSet(devctrl_cmd(XfCur, w, r))
    /\ UNCHANGED <<prev_call, nonXfVars>>

DevCtrlSub ==
    /\ xf_pc = "devctrl_sub"
    /\ \E w \in BOOLEAN, r \in StatusRepliesOk : XfSet(devctrl_sub(XfCur, w, r))
    /\ UNCHANGED <<prev_call, nonXfVars>>

GetPacketLength ==
    /\ xf_pc = "devctrl_data"
    /\ \E d \in PacketLengthReplies(dev_pkt), r \in StatusRepliesOk :
            XfSet(get_packet_length(XfCur, d, r))
    /\ UNCHANGED <<prev_call, nonXfVars>>

WriteCmd ==
    /\ xf_pc = "write_cmd"
    /\ \E w \in BOOLEAN, r \in StatusRepliesOk : XfSet(write_cmd(XfCur, w, r))
    /\ UNCHANGED <<prev_call, nonXfVars>>

WriteParam ==
    /\ xf_pc = "write_param"
    /\ \E w \in BOOLEAN, r \in StatusRepliesOk : XfSet(write_param(XfCur, w, r))
    /\ UNCHANGED <<prev_call, nonXfVars>>

\* the loop has no exit of its own when chunk_size is 0; the model follows
\* it for MaxSize + 1 turns
WriteChunk ==
    /\ xf_pc = "write_chunk"
    /\ Len(wf_chunks) <= MaxSize
    /\ \E w \in BOOLEAN,
          r \in IF WfTaken(XfCur) THEN StatusRepliesOk ELSE StatusRepliesErr :
            XfSet(write_chunk(XfCur, w, r))
    /\ UNCHANGED <<prev_call, nonXfVars>>

WriteFinal ==
    /\ xf_pc = "write_final"
    /\ \E r \in IF WfComplete(XfCur) THEN StatusRepliesOk ELSE StatusRepliesErr :
            XfSet(write_final(XfCur, r))
    /\ UNCHANGED <<prev_call, nonXfVars>>

ReadCmd ==
    /\ xf_pc = "read_cmd"
    /\ \E w \in BOOLEAN, r \in StatusRepliesOk : XfSet(read_cmd(XfCur, w, r))
    /\ UNCHANGED <<prev_call, nonXfVars>>

ReadParam ==
    /\ xf_pc = "read_param"
    /\ \E w \in BOOLEAN, r1 \in StatusRepliesOk, r2 \in StatusRepliesOk :
            XfSet(read_param(XfCur, w, r1, r2))
    /\ UNCHANGED <<prev_call, nonXfVars>>

ReadChunk ==
    /\ xf_pc = "read_chunk"
    /\ \E d \in DataReplies(flash, dev_op), w \in BOOLEAN, r \in StatusRepliesOk :
            XfSet(read_chunk(XfCur, d, w, r))
    /\ UNCHANGED <<prev_call, nonXfVars>>

\* ---------------------------------------------------------------------
\* Device: construction, init, enter_da_mode and the flash entry points
\* (device.rs).  Here a whole call is one step; what the wire does inside
\* a call is a choice of the point at which it fails.
\* ---------------------------------------------------------------------

\* DAFile::get_da_from_hw_code: the chip code a hardware code stands for
DaCode(hw_code) ==
    CASE hw_code = 633 -> 26519    \* 0x279 => 0x6797
      [] hw_code = 801 -> 26421    \* 0x321 => 0x6735
      [] hw_code = 806 -> 26453    \* 0x326 => 0x6755
      [] hw_code = 821 -> 26421    \* 0x335 => 0x6735
      [] hw_code = 823 -> 26421    \* 0x337 => 0x6735
      [] hw_code = 1287 -> 26456    \* 0x507 => 0x6758
      [] hw_code = 1361 -> 26455    \* 0x551 => 0x6757
      [] hw_code = 1378 -> 26521    \* 0x562 => 0x6799
      [] hw_code = 1537 -> 26453    \* 0x601 => 0x6755
      [] hw_code = 1587 -> 25968    \* 0x633 => 0x6570
      [] hw_code = 1672 -> 26456    \* 0x688 => 0x6758
      [] hw_code = 1680 -> 26467    \* 0x690 => 0x6763
      [] hw_code = 1689 -> 26425    \* 0x699 => 0x6739
      [] hw_code = 1799 -> 26472    \* 0x707 => 0x6768
      [] hw_code = 1815 -> 26465    \* 0x717 => 0x6761
      [] hw_code = 1829 -> 26489    \* 0x725 => 0x6779
      [] hw_code = 1894 -> 26469    \* 0x766 => 0x6765
      [] hw_code = 1928 -> 26481    \* 0x788 => 0x6771
      [] hw_code = 2067 -> 26501    \* 0x813 => 0x6785
      [] hw_code = 2070 -> 26757    \* 0x816 => 0x6885
      [] hw_code = 2182 -> 26739    \* 0x886 => 0x6873
      [] hw_code = 2312 -> 34454    \* 0x908 => 0x8696
      [] hw_code = 2352 -> 33173    \* 0x930 => 0x8195
      [] hw_code = 2384 -> 26771    \* 0x950 => 0x6893
      [] hw_code = 2393 -> 26743    \* 0x959 => 0x6877
      [] hw_code = 2441 -> 26675    \* 0x989 => 0x6833
      [] hw_code = 2454 -> 26707    \* 0x996 => 0x6853
      [] hw_code = 4198 -> 26497    \* 0x1066 => 0x6781
      [] hw_code = 25987 -> 25993    \* 0x6583 => 0x6589
      [] hw_code = 33138 -> 33139    \* 0x8172 => 0x8173
      [] hw_code = 33142 -> 33139    \* 0x8176 => 0x8173
      [] OTHER -> hw_code

NoDa == [hw_code |-> 0, da_type |-> "None"]

DaEntry(hw_code, da_type) == [hw_code |-> hw_code, da_type |-> da_type]

\* the entry is looked up by the code the device reported, unmapped
get_da_from_hw_code_raw(das, hw_code) ==
    IF \E i \in 1..Len(das) : das[i].hw_code = hw_code
    THEN das[CHOOSE i \in 1..Len(das) :
                /\ das[i].hw_code = hw_code
                /\ \A j \in 1..(i - 1) : das[j].hw_code # hw_code]
    ELSE NoDa

get_da_from_hw_code(das, hw_code) ==
    IF \E i \in 1..Len(das) : das[i].hw_code = DaCode(hw_code)
    THEN das[CHOOSE i \in 1..Len(das) :
                /\ das[i].hw_code = DaCode(hw_code)
                /\ \A j \in 1..(i - 1) : das[j].hw_code # DaCode(hw_code)]
    ELSE NoDa

\* the DA inputs a Device is built with: none, a blob parse_da rejects,
\* and containers with these entries
DaData(present, parses, das) == [present |-> present, parses |-> parses, das |-> das]

NoDaData == DaData(FALSE, FALSE, <<>>)

V5DaData == DaData(TRUE, TRUE, <<DaEntry(26469, "V5"), DaEntry(26472, "V5")>>)

DaInputs ==
    {NoDaData,
     DaData(TRUE, FALSE, <<>>),
     V5DaData,
     DaData(TRUE, TRUE, <<DaEntry(26472, "V6")>>),
     DaData(TRUE, TRUE, <<DaEntry(26472, "Legacy"), DaEntry(26472, "V5")>>),
     DaData(TRUE, TRUE, <<DaEntry(1799, "V5"), DaEntry(25984, "V5")>>)}

\* the devices on the other end: what they answer to the preloader queries
TheDevice(soc_id, meid, hw_code, target_config) ==
    [soc_id |-> soc_id, meid |-> meid, hw_code |-> hw_code,
     target_config |-> target_config]

Devices ==
    {TheDevice(s, m, h, 5) : s \in {<<>>, <<1, 2>>}, m \in {<<>>, <<3>>},
                             h \in {1799, 25984}}      \* 0x0707, 0x6580

\* the buffers a query leaves behind when the device answers it
DevAnswer(name, dev) ==
    CASE name = "get_soc_id" -> [NoRegs EXCEPT !.data = dev.soc_id]
      [] name = "get_meid" -> [NoRegs EXCEPT !.data = dev.meid]
      [] name = "get_hw_code" -> [NoRegs EXCEPT !.a = to_be_bytes(dev.hw_code, 2)]
      [] name = "get_target_config" ->
            [NoRegs EXCEPT !.a = to_be_bytes(dev.target_config, 4)]

Query(name, dev) == ReturnValue(Cmd0(name), DevAnswer(name, dev))

DefaultDevInfo ==
    [chipset |-> "", soc_id |-> <<>>, meid |-> <<>>, hw_code |-> 0,
     partitions |-> <<>>, storage |-> "None", target_config |-> 0]

Op(name, ret, io, upload, entered_before) ==
    [name |-> name, ret |-> ret, io |-> io, upload |-> upload,
     entered_before |-> entered_before]

NoOp == Op("none", "none", FALSE, FALSE, FALSE)

Req(pname, len) == [pname |-> pname, len |-> len]

NoReq == Req("", 0)

\* DeviceBuilder::build
DevBuilt ==
    /\ connected = FALSE
    /\ connection = "Some"
    /\ protocol = "None"
    /\ proto_da = NoDa
    /\ dev_info = DefaultDevInfo
    /\ last_op = NoOp
    /\ op_req = NoReq
    /\ op_flash = {}
    /\ init_ok = FALSE
    /\ da_entered = FALSE

InitFailurePoints ==
    {"none", "handshake", "get_soc_id", "get_meid", "get_hw_code", "get_target_config"}

set_data_early(ok, cur, device_info) == device_info

set_data(ok, cur, device_info) == IF ok THEN device_info ELSE cur

DeviceInit ==
    /\ \E fail \in InitFailurePoints :
        IF connection = "None"
        THEN /\ last_op' = Op("init", "err", FALSE, FALSE, da_entered)
             /\ UNCHANGED <<connected, connection, protocol, proto_da, dev_info,
                            init_ok>>
        ELSE LET hw_code == Query("get_hw_code", the_device)[1]
                 device_info ==
                    [chipset |-> "Unknown",
                     soc_id |-> Query("get_soc_id", the_device),
                     meid |-> Query("get_meid", the_device),
                     hw_code |-> hw_code,
                     partitions |-> <<>>,
                     storage |-> "None",
                     target_config |-> Query("get_target_config", the_device)[1]]
                 da == get_da_from_hw_code(da_data.das, hw_code)
                 da_ok == \/ ~da_data.present
                          \/ da_data.parses /\ da # NoDa /\ da.da_type = "V5"
                 ok == fail = "none" /\ da_ok
             IN  /\ connection' = IF ok /\ ~da_data.present THEN "Some" ELSE "None"
                 /\ protocol' = IF ok /\ da_data.present THEN "Some" ELSE protocol
                 /\ proto_da' = IF ok /\ da_data.present THEN da ELSE proto_da
                 /\ dev_info' = set_data(ok, dev_info, device_info)
                 /\ connected' = IF ok THEN TRUE ELSE connected
                 /\ init_ok' = (init_ok \/ ok)
                 /\ last_op' = Op("init", IF ok THEN "ok" ELSE "err", TRUE, FALSE,
                                  da_entered)
    /\ op_req' = NoReq
    /\ op_flash' = {}
    /\ UNCHANGED <<conn_type, da_data, the_device, da_entered>>
    /\ UNCHANGED nonDevVars

EnterFailurePoints == {"none", "upload_da", "storage", "read_flash", "parse_gpt"}

Entered(ret, io, upload, ctype, info) ==
    [ret |-> ret, io |-> io, upload |-> upload, conn_type |-> ctype, dev_info |-> info]

enter_da_mode(fail) ==
    LET with_storage ==
            [dev_info EXCEPT !.storage = IF @ = "None" THEN "Emmc" ELSE @]
    IN  IF ~connected THEN Entered("err", FALSE, FALSE, conn_type, dev_info)
        ELSE IF protocol = "None" THEN Entered("err", FALSE, FALSE, conn_type, dev_info)
        ELSE IF fail = "upload_da" THEN Entered("err", TRUE, TRUE, conn_type, dev_info)
        ELSE IF fail = "storage" /\ dev_info.storage = "None"
             THEN Entered("err", TRUE, TRUE, "Da", dev_info)
        ELSE IF fail \in {"read_flash", "parse_gpt"}
             THEN Entered("err", TRUE, TRUE, "Da", with_storage)
        ELSE Entered("ok", TRUE, TRUE, "Da",
                     [with_storage EXCEPT !.partitions = PartitionTable])

\* enter_da_mode reads the GPT with read_flash once the DA runs and the
\* storage is known
enter_flash(fail) ==
    IF /\ connected
       /\ protocol # "None"
       /\ fail # "upload_da"
       /\ ~(fail = "storage" /\ dev_info.storage = "None")
    THEN {"read_flash"}
    ELSE {}

EnterDaMode ==
    /\ \E fail \in EnterFailurePoints :
        LET e == enter_da_mode(fail)
        IN  /\ conn_type' = e.conn_type
            /\ dev_info' = e.dev_info
            /\ da_entered' = (da_entered \/ e.ret = "ok")
            /\ last_op' = Op("enter_da_mode", e.ret, e.io, e.upload, da_entered)
            /\ op_req' = NoReq
            /\ op_flash' = enter_flash(fail)
    /\ UNCHANGED <<connected, connection, protocol, da_data, proto_da, the_device,
                   init_ok>>
    /\ UNCHANGED nonDevVars

FlashOps ==
    {"read_partition", "write_partition", "read_offset", "write_offset", "download"}

\* the function of flash.rs an entry point ends with
FlashFn(name) ==
    CASE name \in {"read_partition", "read_offset"} -> "read_flash"
      [] name \in {"write_partition", "write_offset"} -> "write_flash"
      [] name = "download" -> "download"

DataLens == {1, 2}

\* the `ok_or_else(..)?` of the lookup and the size test left out
Rejected_none(name, part, len) == FALSE

\* the checks of read_partition / write_partition before the transfer
Rejected(name, part, len) ==
    \/ name \in {"read_partition", "write_partition"} /\ part = NoPartition
    \/ name = "write_partition" /\ part # NoPartition /\ len > part.size

\* a flash entry point: ensure_da_mode, the partition lookup and the size
\* test where there are any, then the transfer itself, which succeeds or
\* fails on the wire
FlashOp ==
    /\ \E name \in FlashOps, pname \in {"lk", "nope"}, body \in {"ok", "err"},
          len \in DataLens,
          fail \in IF ensure_da_mode = "enter" THEN EnterFailurePoints ELSE {"none"} :
        LET need == ensure_da_mode
            e == IF need = "enter" THEN enter_da_mode(fail)
                 ELSE Entered(IF need = "pass" THEN "ok" ELSE "err",
                              FALSE, FALSE, conn_type, dev_info)
            entering == IF need = "enter" THEN enter_flash(fail) ELSE {}
            part == get_partition(e.dev_info.partitions, pname)
        IN  /\ conn_type' = e.conn_type
            /\ dev_info' = e.dev_info
            /\ da_entered' = (da_entered \/ (need = "enter" /\ e.ret = "ok"))
            /\ op_req' = Req(pname, len)
            /\ IF e.ret = "err"
               THEN /\ last_op' = Op(name, "err", e.io, e.upload, da_entered)
                    /\ op_flash' = entering
               ELSE IF Rejected(name, part, len)
               THEN /\ last_op' = Op(name, "err", e.io, e.upload, da_entered)
                    /\ op_flash' = entering
               ELSE /\ last_op' = Op(name, body, TRUE, e.upload, da_entered)
                    /\ op_flash' = entering \cup {FlashFn(name)}
    /\ UNCHANGED <<connected, connection, protocol, da_data, proto_da, the_device,
                   init_ok>>
    /\ UNCHANGED nonDevVars

InitDev ==
    /\ DevBuilt
    /\ da_data \in DaInputs
    /\ the_device \in Devices
    /\ conn_type \in ConnectionType
    /\ XfIdle
    /\ dev_pkt = 0
    /\ ConnIdle
    /\ PortVarsInit
    /\ S1Idle
    /\ FnIdle
    /\ XmlIdle
    /\ XoIdle
    /\ InfoIdle
    /\ UsbIdle
    /\ WireIdle
    /\ backend = "usb_backend"
    /\ connection_type = conn_type

NextDev ==
    \/ DeviceInit
    \/ EnterDaMode
    \/ FlashOp

SpecDev == InitDev /\ [][NextDev]_vars

\* ---- the flash transfers, from a device that has entered DA mode ----
DevInDa ==
    /\ connected = TRUE
    /\ connection = "None"
    /\ protocol = "Some"
    /\ conn_type = "Da"
    /\ da_data = V5DaData
    /\ proto_da = DaEntry(26472, "V5")
    /\ the_device = TheDevice(<<1, 2>>, <<3>>, 1799, 5)
    /\ dev_info = [chipset |-> "Unknown", soc_id |-> <<1, 2>>, meid |-> <<3>>,
                   hw_code |-> 1799, partitions |-> PartitionTable,
                   storage |-> "Emmc", target_config |-> 5]
    /\ last_op = Op("enter_da_mode", "ok", TRUE, TRUE, FALSE)
    /\ op_req = NoReq
    /\ op_flash = {"read_flash"}
    /\ init_ok = TRUE
    /\ da_entered = TRUE

InitFlash ==
    /\ DevInDa
    /\ XfIdle
    /\ dev_pkt \in 0..MaxPkt
    /\ ConnIdle
    /\ PortVarsInit
    /\ S1Idle
    /\ FnIdle
    /\ XmlIdle
    /\ XoIdle
    /\ InfoIdle
    /\ UsbIdle
    /\ WireIdle
    /\ backend = "usb_backend"
    /\ connection_type = "Da"

NextFlash ==
    \/ WritePartition
    \/ ReadPartition
    \/ WriteOffset
    \/ DevCtrlCmd
    \/ DevCtrlSub
    \/ GetPacketLength
    \/ WriteCmd
    \/ WriteParam
    \/ WriteChunk
    \/ WriteFinal
    \/ ReadCmd
    \/ ReadParam
    \/ ReadChunk

SpecFlash == InitFlash /\ [][NextFlash]_vars

\* ---- the port and the preloader commands on their own ----
InitPort ==
    /\ ConnIdle
    /\ PortVarsInit
    /\ S1Idle
    /\ FnIdle
    /\ XmlIdle
    /\ XoIdle
    /\ InfoIdle
    /\ UsbIdle
    /\ WireIdle
    /\ backend \in Backends
    /\ connection_type \in ConnectionType
    /\ XfIdle
    /\ dev_pkt = 0
    /\ DevBuilt
    /\ da_data = NoDaData
    /\ the_device = TheDevice(<<>>, <<>>, 1799, 5)
    /\ conn_type = connection_type

NextPort ==
    \/ Open
    \/ Close
    \/ HandshakeBegin
    \/ HandshakeStep
    \/ \E len \in 0..MaxBuf : ReadExactBegin(len)
    \/ ReadExactStep

SpecPort == InitPort /\ [][NextPort]_vars

\* The handshake loop and the read loop are never suspended for ever: the
\* task that called them keeps being polled.
SpecPortFair == SpecPort /\ WF_vars(HandshakeStep) /\ WF_vars(ReadExactStep)

InitConn ==
    /\ ConnIdle
    /\ PortVarsInit
    /\ S1Idle
    /\ FnIdle
    /\ XmlIdle
    /\ XoIdle
    /\ InfoIdle
    /\ UsbIdle
    /\ WireIdle
    /\ backend \in Backends
    /\ connection_type \in ConnectionType
    /\ XfIdle
    /\ dev_pkt = 0
    /\ DevBuilt
    /\ da_data = NoDaData
    /\ the_device = TheDevice(<<>>, <<>>, 1799, 5)
    /\ conn_type = connection_type

NextConn ==
    \/ ConnBegin
    \/ ConnStep

SpecConn == InitConn /\ [][NextConn]_vars

\* ---------------------------------------------------------------------
\* XFlash::upload_stage1 (da/xflash/mod.rs and da/xflash/xflash.rs): the
\* DA1 image is sent with send_da, started with jump_da, and the DA is
\* then set up over framed messages.  send_da and jump_da run as the
\* preloader commands above (ConnStep).
\* ---------------------------------------------------------------------

S1Files == {"mod.rs", "xflash.rs"}

\* one entry of s1_log
S1Event(ev, data, ok) == [ev |-> ev, data |-> data, ok |-> ok]

env_param ==
    to_le_bytes(2, 4) \o to_le_bytes(1, 4) \o to_le_bytes(1, 4)
    \o to_le_bytes(0, 4) \o to_le_bytes(0, 4)

hw_param == <<0, 0, 0, 0>>

S1Write(data) == [k |-> "write", data |-> data]

\* header and payload are two writes of the port, in both copies
S1Send(data) == << S1Write(generate_header(data)), S1Write(data) >>

\* the statements after jump_da, in the swapped order
stage1_steps_swapped(file) ==
    << [k |-> "sync_byte", data |-> <<>>] >>
    \o S1Send(to_le_bytes(Cmd("SetupEnvironment"), 4))
    \o S1Send(SyncSignalLE)
    \o S1Send(env_param) \o << [k |-> "status", data |-> <<>>] >>
    \o S1Send(to_le_bytes(Cmd("SetupHwInitParams"), 4))
    \o S1Send(hw_param) \o << [k |-> "status", data |-> <<>>] >>
    \o << [k |-> IF file = "mod.rs" THEN "raw_sync" ELSE "status_any",
           data |-> <<>>] >>

\* the statements after jump_da
stage1_steps(file) ==
    << [k |-> "sync_byte", data |-> <<>>] >>
    \o S1Send(SyncSignalLE)
    \o S1Send(to_le_bytes(Cmd("SetupEnvironment"), 4))
    \o S1Send(env_param) \o << [k |-> "status", data |-> <<>>] >>
    \o S1Send(to_le_bytes(Cmd("SetupHwInitParams"), 4))
    \o S1Send(hw_param) \o << [k |-> "status", data |-> <<>>] >>
    \o << [k |-> IF file = "mod.rs" THEN "raw_sync" ELSE "status_any",
           data |-> <<>>] >>

\* ---- what the DA can answer ----
SyncByteReplies == {NoByte, 192, 0, 63}

\* a frame whose data type is not ProtocolFlow
OtherTypeFrame(payload) ==
    [kind |-> "frame",
     hdr |-> MagicLE \o to_le_bytes(2, 4) \o to_le_bytes(Len(payload), 4),
     payload |-> payload]

SyncReplies ==
    {DevFrame(SyncSignalLE), DevFrame(Zero32), DevFrame(<<83, 89>>),
     OtherTypeFrame(SyncSignalLE), BadMagicFrame, NoFrame("ioerr")}

\* ---- the tests of the two copies ----
\* status_any!(self, allowed..): the status read must be one of `allowed`
status_any(r, allowed) == get_status(r).ok /\ get_status(r).status \in allowed

\* mod.rs: the raw 12-byte header and 4-byte payload after the setup
raw_sync(r) ==
    /\ r.kind = "frame"
    /\ SubSeq(r.hdr, 1, 4) = MagicLE
    /\ from_le_bytes(SubSeq(r.hdr, 5, 8)) = 1
    /\ from_le_bytes(SubSeq(r.hdr, 9, 12)) = 4
    /\ r.payload = SyncSignalLE

\* the kind of the error a failed status read returns
StatusErrorKind(r) ==
    IF r.kind # "frame" \/ ~parse_header(r.hdr).ok THEN "io" ELSE "xflash"

\* ---- running upload_stage1 ----
S1Return(ret, log2) ==
    /\ s1_ret' = ret
    /\ s1_pc' = "done"
    /\ s1_log' = log2
    /\ UNCHANGED <<s1_file, s1_step>>

S1Advance(log2) ==
    IF s1_step = Len(stage1_steps(s1_file))
    THEN S1Return("ok", log2)
    ELSE /\ s1_step' = s1_step + 1
         /\ s1_log' = log2
         /\ UNCHANGED <<s1_file, s1_pc, s1_ret>>

S1Call(c) ==
    /\ conn_cmd' = c
    /\ conn_pc' = 1
    /\ conn_ret' = "none"
    /\ conn_regs' = NoRegs
    /\ conn_val' = <<>>
    /\ conn_log' = <<>>

\* upload_stage1(addr, length, data, sig_len): `self.conn.send_da(..)`
UploadStage1 ==
    /\ s1_pc \in {"idle", "done"}
    /\ \E f \in S1Files, a \in Addresses, d \in DaBlobs, g \in SigLens :
        /\ s1_file' = f
        /\ S1Call([Cmd0("send_da") EXCEPT !.address = a, !.size = Len(d),
                                          !.da_data = d, !.sig_len = g])
    /\ s1_pc' = "send_da"
    /\ s1_step' = 0
    /\ s1_ret' = "none"
    /\ s1_log' = <<>>
    /\ UNCHANGED nonS1Vars

\* `send_da(..).await?; self.conn.jump_da(addr)`
S1SendDaDone ==
    /\ s1_pc = "send_da"
    /\ conn_ret # "none"
    /\ LET log2 == Append(s1_log, S1Event("send_da", <<>>, conn_ret = "ok"))
       IN  IF conn_ret = "ok"
           THEN /\ S1Call([Cmd0("jump_da") EXCEPT !.address = conn_cmd.address])
                /\ s1_pc' = "jump_da"
                /\ s1_log' = log2
                /\ UNCHANGED <<s1_file, s1_step, s1_ret>>
           ELSE /\ S1Return("conn", log2)
                /\ UNCHANGED connVars
    /\ UNCHANGED nonS1Vars

\* `jump_da(addr).await?`
S1JumpDaDone ==
    /\ s1_pc = "jump_da"
    /\ conn_ret # "none"
    /\ LET log2 == Append(s1_log, S1Event("jump_da", <<>>, conn_ret = "ok"))
       IN  IF conn_ret = "ok"
           THEN /\ s1_pc' = "setup"
                /\ s1_step' = 1
                /\ s1_log' = log2
                /\ UNCHANGED <<s1_file, s1_ret>>
           ELSE S1Return("conn", log2)
    /\ UNCHANGED connVars
    /\ UNCHANGED nonS1Vars

S1Step ==
    /\ s1_pc = "setup"
    /\ LET st == stage1_steps(s1_file)[s1_step]
       IN  CASE st.k = "sync_byte" ->
                  \E b \in SyncByteReplies :
                      LET log2 == Append(s1_log,
                                    S1Event("sync_byte",
                                            IF b = NoByte THEN <<>> ELSE <<b>>,
                                            b # NoByte))
                      IN  IF b = NoByte THEN S1Return("io", log2)
                          ELSE IF b # 192 THEN S1Return("proto", log2)
                          ELSE S1Advance(log2)
             [] st.k = "write" ->
                  \E w \in BOOLEAN :
                      LET log2 == Append(s1_log, S1Event("write", st.data, w))
                      IN  IF w THEN S1Advance(log2) ELSE S1Return("io", log2)
             [] st.k = "status" ->
                  \E r \in StatusRepliesOk :
                      LET log2 == Append(s1_log,
                                    S1Event("status", r.payload, r.kind = "frame"))
                      IN  IF StatusIsZero(r) THEN S1Advance(log2)
                          ELSE S1Return(StatusErrorKind(r), log2)
             [] st.k = "status_any" ->
                  \E r \in SyncReplies :
                      LET log2 == Append(s1_log,
                                    S1Event("sync", r.payload, r.kind = "frame"))
                      IN  IF status_any(r, {SyncSignalLE}) THEN S1Advance(log2)
                          ELSE S1Return(StatusErrorKind(r), log2)
             [] st.k = "raw_sync" ->
                  \E r \in SyncReplies :
                      LET log2 == Append(s1_log,
                                    S1Event("sync", r.payload, r.kind = "frame"))
                      IN  IF raw_sync(r) THEN S1Advance(log2)
                          ELSE S1Return("proto", log2)
    /\ UNCHANGED connVars
    /\ UNCHANGED nonS1Vars

InitStage1 ==
    /\ ConnIdle
    /\ PortVarsInit
    /\ S1Idle
    /\ FnIdle
    /\ XmlIdle
    /\ XoIdle
    /\ InfoIdle
    /\ UsbIdle
    /\ WireIdle
    /\ backend = "usb_backend"
    /\ connection_type = "Preloader"
    /\ XfIdle
    /\ dev_pkt = 0
    /\ DevBuilt
    /\ da_data = V5DaData
    /\ the_device = TheDevice(<<>>, <<>>, 1799, 5)
    /\ conn_type = connection_type

NextStage1 ==
    \/ UploadStage1
    \/ ConnStep
    \/ S1SendDaDone
    \/ S1JumpDaDone
    \/ S1Step

SpecStage1 == InitStage1 /\ [][NextStage1]_vars

\* ---------------------------------------------------------------------
\* Functions of their input alone: DAFile::parse_da (da/dafile.rs), the
\* reading of one frame (read_data / get_status of da/xflash and
\* da/xml/xml_lib.rs) and the three messages write_flash sends for one
\* chunk (da/xflash/flash.rs).  Every call starts from an input of the sets below.
\* ---------------------------------------------------------------------

Ret(val) == [done |-> TRUE, val |-> val]

\* ---- DAFile::parse_da ----
\* A container, by what parse_da looks at: its length, the bytes at
\* 0x6C + 0xD8, the two tags of the header, and for every region of every
\* entry whether its data contains "AND_SECRO_v".
Container(too_small, legacy_magic, v6_tag, agent_tag, entries) ==
    [too_small |-> too_small, legacy_magic |-> legacy_magic, v6_tag |-> v6_tag,
     agent_tag |-> agent_tag, entries |-> entries]

RawEntry(hw_code, secro) == [hw_code |-> hw_code, secro |-> secro]

ContainerType(c) ==
    IF c.legacy_magic THEN "Legacy"
    ELSE IF c.v6_tag THEN "V6"
    ELSE "V5"

InnerType(da_type, entry) ==
    IF da_type # "Legacy" /\ \E k \in 1..Len(entry.secro) : entry.secro[k]
    THEN "Legacy"
    ELSE da_type

parse_da(c) ==
    LET da_type == ContainerType(c)
    IN  IF c.too_small THEN [ok |-> FALSE, da_type |-> "None", das |-> <<>>]
        ELSE IF da_type # "Legacy" /\ ~c.agent_tag
             THEN [ok |-> FALSE, da_type |-> "None", das |-> <<>>]
        ELSE [ok |-> TRUE,
              da_type |-> da_type,
              das |-> [i \in 1..Len(c.entries) |->
                          DaEntry(c.entries[i].hw_code,
                                  InnerType(da_type, c.entries[i]))]]

RegionFlags ==
    [1..3 -> BOOLEAN] \cup {<<>>, <<FALSE, TRUE>>}

EntryLists ==
    {<<>>}
    \cup {<<RawEntry(26472, f)>> : f \in RegionFlags}
    \cup {<<RawEntry(26469, <<FALSE, FALSE, FALSE>>),
            RawEntry(26472, <<FALSE, FALSE, TRUE>>)>>}

Containers ==
    {Container(TRUE, FALSE, FALSE, TRUE, <<>>)}
    \cup {Container(FALSE, m, v, a, e) :
            m \in BOOLEAN, v \in BOOLEAN, a \in BOOLEAN, e \in EntryLists}

\* ---- DAFile::parse_da: the slices it takes ----
\* A u32 of the file as two 16-bit halves
U32(hi, lo) == [hi |-> hi, lo |-> lo]

\* `offset + length` in u32: whether it overflows, and its value as a usize
\* when it does not and stays small
AddOverflows(a, b) == a.hi + b.hi + ((a.lo + b.lo) \div 65536) >= 65536

\* a < b in u32
Less32(a, b) == a.hi < b.hi \/ (a.hi = b.hi /\ a.lo < b.lo)

\* The layout of a container: its length, the entry size of its dialect
\* (0xD8 or 0xDC), num_socs of the header, the region count of its entries,
\* offset, length and sig_len of their regions, and whether the build checks
\* integer overflow (debug) or wraps (release).
Layout(len, entry_size, num_socs, region_count, offset, length, sig_len, checked) ==
    [len |-> len, entry_size |-> entry_size, num_socs |-> num_socs,
     region_count |-> region_count, offset |-> offset, length |-> length,
     sig_len |-> sig_len, checked |-> checked]

\* one turn of the inner loop: `raw_data[offset as usize..(offset + length)
\* as usize]` and `length - sig_len`
region_outcome(f) ==
    IF AddOverflows(f.offset, f.length)
    THEN "panic"        \* checked: the addition; wrapping: start > end
    ELSE IF ~(f.offset.hi + f.length.hi = 0 /\ f.offset.lo + f.length.lo <= f.len)
    THEN "panic"        \* range end out of bounds
    ELSE IF Less32(f.length, f.sig_len)
    THEN (IF f.checked THEN "panic" ELSE "ok")
    ELSE "ok"

\* the regions of one entry: region k is described by
\* `da_entry[0x14 + 20 * k..0x14 + 20 * k + 20]`
entry_outcome(f) ==
    IF f.region_count = 0 THEN "ok"
    ELSE IF region_outcome(f) # "ok" THEN region_outcome(f)
    ELSE IF 20 + 20 * f.region_count > f.entry_size THEN "panic"
    ELSE "ok"

\* `for i in 0..num_socs`: entry i is `raw_data[0x6C + i * da_entry_size..]`
\* of da_entry_size bytes
parse_da_layout(f) ==
    IF f.len < 328 THEN "err"                      \* 0x6C + 0xDC
    ELSE IF f.num_socs = 0 THEN "ok"
    ELSE IF entry_outcome(f) # "ok" THEN entry_outcome(f)
    ELSE IF 108 + f.num_socs * f.entry_size > f.len THEN "panic"
    ELSE "ok"

Layouts ==
    {Layout(327, 220, 1, 0, U32(0, 0), U32(0, 0), U32(0, 0), TRUE)}
    \cup {Layout(len, es, n, rc, U32(oh, ol), U32(lh, ll), U32(0, sg), ck) :
            len \in {328, 548}, es \in {216, 220}, n \in {0, 1, 2, 3},
            rc \in {0, 1, 10, 11}, oh \in {0, 65535}, ol \in {328, 548},
            lh \in {0, 1}, ll \in {0, 4}, sg \in {0, 4, 8}, ck \in BOOLEAN}

\* ---- one frame read from the wire ----
FramePayloadBytes == {0, 67, 239}

FramePayloads ==
    UNION {[1..n -> FramePayloadBytes] : n \in 0..2}
    \cup {Zero32, MagicLE, SyncSignalLE, ErrCodeLE, <<1, 0, 0, 0>>,
          SyncSignalLE \o <<9>>, MagicLE \o Zero32, Zero32 \o <<1, 0>>,
          ErrCodeLE \o SyncSignalLE, <<0, 0, 1>>}

\* the bytes the device has queued: whole frames, frames with a wrong first
\* magic byte, and frames cut short by one byte
Wires ==
    {generate_header(p) \o p : p \in FramePayloads}
    \cup {<<0>> \o Tail(generate_header(p)) \o p : p \in FramePayloads}
    \cup {SubSeq(generate_header(p) \o p, 1, 11 + Len(p)) : p \in FramePayloads}

\* port.read_exact on the bytes from index `from` on
WireRead(wire, from, n) ==
    IF Len(wire) >= from + n - 1
    THEN [ok |-> TRUE, data |-> SubSeq(wire, from, from + n - 1)]
    ELSE [ok |-> FALSE, data |-> <<>>]

\* what a read returns: Ok(val), or Err built by the constructor `err`;
\* `taken` counts the payload bytes asked of the port
FrameRet(ok, err, val, taken) ==
    [ok |-> ok, err |-> err, val |-> val, taken |-> taken]

\* Error::XFlash(XFlashError::from_code(status))
XFlashError_from_code(status) == [kind |-> "XFlash", code |-> status]

ErrorOf(constructor) == [kind |-> constructor, code |-> <<>>]

read_data_wire(wire) ==
    LET hdr == WireRead(wire, 1, 12)
    IN  IF ~hdr.ok THEN FrameRet(FALSE, ErrorOf("io"), <<>>, 0)
        ELSE IF ~parse_header(hdr.data).ok
             THEN FrameRet(FALSE, ErrorOf("io"), <<>>, 0)
        ELSE LET len == parse_header(hdr.data).len
                 data == WireRead(wire, 13, len)
             IN  IF ~data.ok THEN FrameRet(FALSE, ErrorOf("io"), <<>>, len)
                 ELSE FrameRet(TRUE, ErrorOf("none"), data.data, len)

get_status_wire(wire) ==
    LET hdr == WireRead(wire, 1, 12)
    IN  IF ~hdr.ok THEN FrameRet(FALSE, ErrorOf("io"), <<>>, 0)
        ELSE IF ~parse_header(hdr.data).ok
             THEN FrameRet(FALSE, ErrorOf("io"), <<>>, 0)
        ELSE LET len == parse_header(hdr.data).len
                 data == WireRead(wire, 13, len)
                 status == decode_status(len, data.data)
             IN  IF ~data.ok THEN FrameRet(FALSE, ErrorOf("io"), <<>>, len)
                 ELSE IF status = Zero32 \/ status = SyncSignalLE
                      THEN FrameRet(TRUE, ErrorOf("none"), status, len)
                 ELSE FrameRet(FALSE, XFlashError_from_code(status), <<>>, len)

\* ---- the messages of one chunk of write_flash ----
ChunkLen == 258       \* longest run of equal bytes in a chunk

Run(b, n) == [i \in 1..n |-> b]

ChunkRuns ==
    {<<b1, n1, b2, n2>> : b1 \in {1, 255}, n1 \in {0, 2, ChunkLen},
                          b2 \in {0, 255}, n2 \in {0, 1, 200}}

ChunkOf(run) == Run(run[1], run[2]) \o Run(run[3], run[4])

\* send(&0u32.to_be_bytes()), send(&checksum.to_le_bytes()), send_data(chunk)
WfMessages(chunk) == << to_be_bytes(0, 4), WfChecksum(chunk), chunk >>

\* ---- SecCfgV4 (core/seccfg.rs) ----
V4_MAGIC_BEGIN == 1296911693    \* 0x4D4D4D4D
V4_MAGIC_END == 1162167621      \* 0x45454545
SecBlock == 512                 \* 0x200

Some(v) == [some |-> TRUE, v |-> v]

NoneOf(v) == [some |-> FALSE, v |-> v]

SecCfgV4(ver, size, lock, critical, sboot, algo, enc_hash) ==
    [seccfg_ver |-> ver, seccfg_size |-> size, lock_state |-> lock,
     critical_lock_state |-> critical, sboot_runtime |-> sboot, algo |-> algo,
     enc_hash |-> enc_hash]

\* Sha256::digest, as far as the model needs it: 32 bytes that depend on
\* every byte of the data
Sha256_digest(data) == [i \in 1..32 |-> (Sum(data) * 31 + i * 7 + Len(data)) % 256]

\* the 28 bytes before the hash
SecHeader(s) ==
    to_le_bytes(V4_MAGIC_BEGIN, 4) \o to_le_bytes(s.seccfg_ver, 4)
    \o to_le_bytes(s.seccfg_size, 4) \o to_le_bytes(s.lock_state, 4)
    \o to_le_bytes(s.critical_lock_state, 4) \o to_le_bytes(s.sboot_runtime, 4)
    \o to_le_bytes(V4_MAGIC_END, 4)

get_hash(s) == Sha256_digest(SecHeader(s))

\* Lock and Unlock set the same state
set_lock_state_same(s, lock_flag) ==
    [s EXCEPT !.lock_state = 3, !.critical_lock_state = 0]

set_lock_state(s, lock_flag) ==
    IF lock_flag = "Lock"
    THEN [s EXCEPT !.lock_state = 4, !.critical_lock_state = 1]
    ELSE [s EXCEPT !.lock_state = 3, !.critical_lock_state = 0]

\* `while !seccfg_data.len().is_multiple_of(0x200) { push(0) }`
PadTo(data, block) ==
    data \o [i \in 1..((block - (Len(data) % block)) % block) |-> 0]

\* the block is not padded
create_unpadded(s) ==
    SecHeader(s) \o (IF s.enc_hash.some THEN s.enc_hash.v ELSE get_hash(s))

create(s) ==
    PadTo(SecHeader(s) \o (IF s.enc_hash.some THEN s.enc_hash.v ELSE get_hash(s)),
          SecBlock)

\* data of 0x20 to 59 bytes passes the length test and makes `data[28..60]`
\* panic
parse_header_v4(data) ==
    IF Len(data) < 32 THEN [ok |-> FALSE, err |-> "penumbra", s |-> <<>>]
    ELSE IF Len(data) < 60 THEN [ok |-> FALSE, err |-> "panic", s |-> <<>>]
    ELSE IF \/ from_le_bytes(SubSeq(data, 1, 4)) # V4_MAGIC_BEGIN
            \/ from_le_bytes(SubSeq(data, 25, 28)) # V4_MAGIC_END
         THEN [ok |-> FALSE, err |-> "penumbra", s |-> <<>>]
    ELSE [ok |-> TRUE, err |-> "none",
          s |-> SecCfgV4(from_le_bytes(SubSeq(data, 5, 8)),
                         from_le_bytes(SubSeq(data, 9, 12)),
                         from_le_bytes(SubSeq(data, 13, 16)),
                         from_le_bytes(SubSeq(data, 17, 20)),
                         from_le_bytes(SubSeq(data, 21, 24)),
                         "None", Some(SubSeq(data, 29, 60)))]

\* the values a caller can hold: new(), a parsed block, a block whose hash was
\* set to 31, 32 or 33 bytes
EncHashes ==
    {NoneOf(<<>>), Some(Run(171, 32)), Some(Run(171, 31)), Some(Run(171, 33))}

SecCfgs ==
    {SecCfgV4(ver, 20, lock, critical, sboot, algo, h) :
        ver \in {4, 5}, lock \in {0, 3, 4, 16909060}, critical \in {0, 1},
        sboot \in {0, 1}, algo \in {"None", "SW"}, h \in EncHashes}

SecBlocks ==
    {create(s) : s \in {SecCfgV4(4, 20, 3, 0, 0, "None", NoneOf(<<>>))}}
    \cup {Run(0, 31), Run(0, 32), Run(77, 60), Run(77, 59)}

SecCalls ==
    {FnCall("set_lock_state", [s |-> s, lock_flag |-> f]) :
        s \in SecCfgs, f \in {"Lock", "Unlock"}}
    \cup {FnCall("create", s) : s \in SecCfgs}
    \cup {FnCall("parse_header", d) : d \in SecBlocks}

\* ---- DA regions, upload_da and the DA2 patch ----
DAEntryRegion(addr, data, sig_len) ==
    [addr |-> addr, data |-> data, length |-> Len(data), sig_len |-> sig_len]

DA(regions) == [regions |-> regions]

get_da1(da) == IF Len(da.regions) >= 3 THEN Some(da.regions[2]) ELSE NoneOf(<<>>)

get_da2(da) == IF Len(da.regions) >= 3 THEN Some(da.regions[3]) ELSE NoneOf(<<>>)

\* `da2.data[..da2.data.len().saturating_sub(sig_len)]`
da2_original_data(da2) ==
    SubSeq(da2.data, 1,
           IF Len(da2.data) > da2.sig_len THEN Len(da2.data) - da2.sig_len ELSE 0)

\* what an exploit runner gives back: the result of run(), and the patched
\* DA or region it then holds, if any
Runner(ok, result, patched) == [ok |-> ok, result |-> result, patched |-> patched]

\* a failed run leaves nothing to boot
da2data_strict(patch, run, original) ==
    IF ~patch THEN original
    ELSE IF run.ok /\ run.patched.some THEN run.patched.v.data
    ELSE <<>>

\* `let da2data = if self.patch { match carbonara.run(self) { .. } } else { .. }`
da2data(patch, run, original) ==
    IF ~patch THEN original
    ELSE IF run.ok
         THEN IF run.patched.some THEN run.patched.v.data ELSE original
    ELSE original

UploadRet(ret, da, patch, ran, boot_to) ==
    [ret |-> ret, da |-> da, patch |-> patch, ran |-> ran, boot_to |-> boot_to]

\* upload_da of XFlash (file = "xflash") and of Xml (file = "xml"); env holds
\* the outcome of every step that talks to the device or runs an exploit
upload_da(file, da, patch, env) ==
    LET kamakiri == file = "xflash" /\ patch /\ env.kamakiri.ok
        da_k == IF kamakiri /\ env.kamakiri.patched.some
                THEN env.kamakiri.patched.v ELSE da
        patch_k == IF kamakiri THEN ~env.kamakiri.result ELSE patch
        da2 == get_da2(da_k).v
        data == da2data(patch_k, env.carbonara, da2_original_data(da2))
        call == <<[addr |-> da2.addr, data |-> data]>>
    IN  IF ~get_da1(da_k).some THEN UploadRet("penumbra", da_k, patch_k, FALSE, <<>>)
        ELSE IF ~env.stage1 THEN UploadRet("proto", da_k, patch_k, FALSE, <<>>)
        ELSE IF file = "xflash" /\ ~env.packet_length
             THEN UploadRet("io", da_k, patch_k, FALSE, <<>>)
        ELSE IF ~get_da2(da_k).some
             THEN UploadRet("penumbra", da_k, patch_k, FALSE, <<>>)
        ELSE IF env.boot_to = "Err" THEN UploadRet("proto", da_k, patch_k, patch_k, call)
        ELSE IF file = "xflash" /\ env.boot_to = "Ok(false)"
             THEN UploadRet("proto", da_k, patch_k, patch_k, call)
        ELSE IF ~env.rest THEN UploadRet("io", da_k, patch_k, patch_k, call)
        ELSE UploadRet("Ok", da_k, patch_k, patch_k, call)

\* ---- patch_da2 (da/xflash/patch.rs) ----
\* "636D645F626F6F745F746F00": cmd_boot_to and a zero byte
CMD_BOOT_TO_Z == <<99, 109, 100, 95, 98, 111, 111, 116, 95, 116, 111, 0>>

XX == 0 - 1     \* a byte of a pattern that matches any byte

\* "08B54FF460200021XXF7"
DAGENT_REG_CMDS == <<8, 181, 79, 244, 96, 32, 0, 33, XX, 247>>

\* "30B5002385B004460193"
DEVC_READ_REG == <<48, 181, 0, 35, 133, 176, 4, 70, 1, 147>>

\* "084B13B504460193"
UNSUPPORTED_CMD == <<8, 75, 19, 181, 4, 70, 1, 147>>

\* "38B5054610200C46"
REGISTER_MAJ_CMD == <<56, 181, 5, 70, 16, 32, 12, 70>>

\* include_bytes!("../../../payloads/extloader_v5.bin"), four bytes of it
EXT_LOADER == <<224, 225, 226, 227>>

MatchesAt(data, pattern, at) ==
    /\ at + Len(pattern) <= Len(data)
    /\ \A i \in 1..Len(pattern) : pattern[i] = XX \/ data[at + i] = pattern[i]

\* find_pattern(data, pattern, 0): the offset of the first match, or
\* HEX_NOT_FOUND
find_pattern(data, pattern) ==
    IF \E at \in 0..Len(data) : MatchesAt(data, pattern, at)
    THEN [found |-> TRUE,
          at |-> CHOOSE at \in 0..Len(data) :
                    /\ MatchesAt(data, pattern, at)
                    /\ \A b \in 0..(at - 1) : ~MatchesAt(data, pattern, b)]
    ELSE [found |-> FALSE, at |-> 0]

\* patch(data, offset, bytes): the bytes written over the data at the offset
patch(data, where, bytes) ==
    IF ~where.found \/ where.at + Len(bytes) > Len(data)
    THEN [ok |-> FALSE, data |-> data]
    ELSE [ok |-> TRUE,
          data |-> [i \in 1..Len(data) |->
                       IF i > where.at /\ i <= where.at + Len(bytes)
                       THEN bytes[i - where.at] ELSE data[i]]]

\* to_thumb_addr(offset, addr)
to_thumb_addr(offset, addr) ==
    IF (addr + offset) % 2 = 0 THEN addr + offset + 1 ELSE addr + offset

\* encode_ldr and encode_bl: instructions that depend on their operands
encode_ldr(ldr_off, target, addr) == <<72 + (target % 8), (ldr_off + addr) % 256>>

encode_bl(bl_addr, target) == <<240, bl_addr % 256, 248, target % 256>>

\* the register-commands patch
reg_cmd_patch(dagent, dat, maj, addr) ==
    <<79, 244, 128, 48, 8, 48>>
    \o encode_ldr(dagent + 2 + 6, dat, addr)
    \o encode_bl(dagent + 2 + 6 + 2 + addr, to_thumb_addr(maj, addr))
    \o <<175, 243, 0, 128>> \o <<175, 243, 0, 128>>

\* patch_boot_to(da): Ok(false) when the command is there, Ok(true) with the
\* patched bytes, or the error of a patch that found no place
patch_boot_to(da) ==
    IF find_pattern(da.data, CMD_BOOT_TO_Z).found
    THEN [ok |-> TRUE, patched |-> FALSE, da |-> da]
    ELSE LET dagent_reg_cmds == find_pattern(da.data, DAGENT_REG_CMDS)
             devc_read_reg == find_pattern(da.data, DEVC_READ_REG)
             unsupported_cmd == find_pattern(da.data, UNSUPPORTED_CMD)
             register_maj_cmd == find_pattern(da.data, REGISTER_MAJ_CMD)
             p1 == patch(da.data, devc_read_reg, EXT_LOADER)
             unsupported_cmd_addr ==
                 to_le_bytes(to_thumb_addr(unsupported_cmd.at, da.addr), 4)
             devc_read_reg_addr ==
                 to_le_bytes(to_thumb_addr(devc_read_reg.at, da.addr), 4)
             unsupported_cmd_dat == find_pattern(p1.data, unsupported_cmd_addr)
             p2 == patch(p1.data, unsupported_cmd_dat, devc_read_reg_addr)
             p3 == patch(p2.data,
                         [found |-> dagent_reg_cmds.found, at |-> dagent_reg_cmds.at + 2],
                         reg_cmd_patch(dagent_reg_cmds.at, unsupported_cmd_dat.at,
                                       register_maj_cmd.at, da.addr))
         IN  IF ~p1.ok \/ ~unsupported_cmd.found \/ ~p2.ok \/ ~register_maj_cmd.found
                \/ ~p3.ok
             THEN [ok |-> FALSE, patched |-> FALSE, da |-> da]
             ELSE [ok |-> TRUE, patched |-> TRUE, da |-> [da EXCEPT !.data = p3.data]]

\* the DA2 held by the protocol is patched itself
patch_da2_inplace(xflash) ==
    LET r == patch_boot_to(xflash.da.regions[3])
    IN  [ok |-> r.ok, region |-> r.da,
         xflash |-> [xflash EXCEPT !.da.regions[3] = r.da]]

\* patch_da2(xflash): `xflash.da.get_da2().cloned().unwrap()` is patched and
\* returned; the result holds the protocol as the call leaves it
patch_da2(xflash) ==
    LET r == patch_boot_to(get_da2(xflash.da).v)
    IN  [ok |-> r.ok, region |-> r.da, xflash |-> xflash]

\* ---- the DA entries and the outcomes upload_da and patch_da2 are run on ----
\* a DA2 that holds every place patch_boot_to looks for, loaded at addr, with
\* the places starting at offset base
SigData(base, addr) ==
    <<8, 181, 79, 244, 96, 32, 0, 33, 7, 247>> \o Run(0, 20) \o DEVC_READ_REG
    \o UNSUPPORTED_CMD \o REGISTER_MAJ_CMD
    \o to_le_bytes(to_thumb_addr(base + 40, addr), 4)

CmdBootTo == SubSeq(CMD_BOOT_TO_Z, 1, 11)

Da2Datas ==
    {CMD_BOOT_TO_Z \o SigData(12, 64), CmdBootTo \o <<95>> \o SigData(12, 64),
     <<1, 2>> \o CmdBootTo, SigData(0, 64), <<1, 2, 3>>}

PatchCalls ==
    {FnCall("patch_da2",
            [da |-> DA(<<DAEntryRegion(0, <<9>>, 0), DAEntryRegion(32, <<1, 2>>, 0),
                         DAEntryRegion(64, d, 0)>>)]) : d \in Da2Datas}

UploadDas ==
    {DA(<<DAEntryRegion(0, <<9>>, 0), DAEntryRegion(32, <<1, 2>>, 0),
          DAEntryRegion(64, <<5, 6, 7, 8>>, n)>>) : n \in {0, 2, 5}}
    \cup {DA(<<DAEntryRegion(0, <<9>>, 0), DAEntryRegion(32, <<1, 2>>, 0)>>)}

PatchedDa ==
    DA(<<DAEntryRegion(0, <<9>>, 0), DAEntryRegion(32, <<3, 4>>, 0),
         DAEntryRegion(64, <<5, 6, 7, 8>>, 1)>>)

KamakiriRuns ==
    {Runner(FALSE, FALSE, NoneOf(<<>>)), Runner(TRUE, FALSE, NoneOf(<<>>)),
     Runner(TRUE, TRUE, NoneOf(<<>>)), Runner(TRUE, FALSE, Some(PatchedDa))}

CarbonaraRuns ==
    {Runner(FALSE, FALSE, NoneOf(<<>>)), Runner(TRUE, TRUE, NoneOf(<<>>)),
     Runner(TRUE, TRUE, Some(DAEntryRegion(64, <<5, 6, 70, 80>>, 0)))}

UploadEnvs ==
    [kamakiri : KamakiriRuns, stage1 : BOOLEAN, packet_length : BOOLEAN,
     carbonara : CarbonaraRuns, boot_to : {"Ok(true)", "Ok(false)", "Err"},
     rest : BOOLEAN]

UploadCalls ==
    {FnCall("upload_da", [file |-> f, da |-> da, patch |-> p, env |-> e]) :
        f \in {"xflash", "xml"}, da \in UploadDas, p \in BOOLEAN, e \in UploadEnvs}

\* ---- the calls ----
FnCalls ==
    {FnCall("parse_da", c) : c \in Containers}
    \cup {FnCall("parse_da.slices", f) : f \in Layouts}
    \cup {FnCall(f, w) : f \in {"xflash.read_data", "xml.read_data", "get_status"},
                         w \in Wires}
    \cup {FnCall("write_flash", r) : r \in ChunkRuns}
    \cup SecCalls
    \cup UploadCalls
    \cup PatchCalls

ParseDa ==
    /\ fn_call.fn = "parse_da"
    /\ ~fn_ret.done
    /\ fn_ret' = Ret(parse_da(fn_call.arg))
    /\ UNCHANGED fn_call
    /\ UNCHANGED nonFnVars

ParseDaSlices ==
    /\ fn_call.fn = "parse_da.slices"
    /\ ~fn_ret.done
    /\ fn_ret' = Ret(parse_da_layout(fn_call.arg))
    /\ UNCHANGED fn_call
    /\ UNCHANGED nonFnVars

ReadData ==
    /\ fn_call.fn \in {"xflash.read_data", "xml.read_data"}
    /\ ~fn_ret.done
    /\ fn_ret' = Ret(read_data_wire(fn_call.arg))
    /\ UNCHANGED fn_call
    /\ UNCHANGED nonFnVars

GetStatus ==
    /\ fn_call.fn = "get_status"
    /\ ~fn_ret.done
    /\ fn_ret' = Ret(get_status_wire(fn_call.arg))
    /\ UNCHANGED fn_call
    /\ UNCHANGED nonFnVars

WriteFlashChunk ==
    /\ fn_call.fn = "write_flash"
    /\ ~fn_ret.done
    /\ fn_ret' = Ret(WfMessages(ChunkOf(fn_call.arg)))
    /\ UNCHANGED fn_call
    /\ UNCHANGED nonFnVars

SetLockState ==
    /\ fn_call.fn = "set_lock_state"
    /\ ~fn_ret.done
    /\ fn_ret' = Ret(set_lock_state(fn_call.arg.s, fn_call.arg.lock_flag))
    /\ UNCHANGED fn_call
    /\ UNCHANGED nonFnVars

Create ==
    /\ fn_call.fn = "create"
    /\ ~fn_ret.done
    /\ fn_ret' = Ret(create(fn_call.arg))
    /\ UNCHANGED fn_call
    /\ UNCHANGED nonFnVars

ParseHeader ==
    /\ fn_call.fn = "parse_header"
    /\ ~fn_ret.done
    /\ fn_ret' = Ret(parse_header_v4(fn_call.arg))
    /\ UNCHANGED fn_call
    /\ UNCHANGED nonFnVars

UploadDa ==
    /\ fn_call.fn = "upload_da"
    /\ ~fn_ret.done
    /\ fn_ret' = Ret(upload_da(fn_call.arg.file, fn_call.arg.da, fn_call.arg.patch,
                               fn_call.arg.env))
    /\ UNCHANGED fn_call
    /\ UNCHANGED nonFnVars

PatchDa2 ==
    /\ fn_call.fn = "patch_da2"
    /\ ~fn_ret.done
    /\ fn_ret' = Ret(patch_da2(fn_call.arg))
    /\ UNCHANGED fn_call
    /\ UNCHANGED nonFnVars

InitFn ==
    /\ ConnIdle
    /\ PortVarsInit
    /\ S1Idle
    /\ fn_call \in FnCalls
    /\ fn_ret = NoRet
    /\ XmlIdle
    /\ XoIdle
    /\ InfoIdle
    /\ UsbIdle
    /\ WireIdle
    /\ backend = "usb_backend"
    /\ connection_type = "Da"
    /\ XfIdle
    /\ dev_pkt = 0
    /\ DevBuilt
    /\ da_data = NoDaData
    /\ the_device = TheDevice(<<>>, <<>>, 1799, 5)
    /\ conn_type = connection_type

NextFn ==
    \/ ParseDa
    \/ ParseDaSlices
    \/ ReadData
    \/ GetStatus
    \/ WriteFlashChunk
    \/ SetLockState
    \/ Create
    \/ ParseHeader
    \/ UploadDa
    \/ PatchDa2

SpecFn == InitFn /\ [][NextFn]_vars

\* ---------------------------------------------------------------------
\* Xml::send_cmd (da/xml/xml_lib.rs): the lifetime markers of a command,
\* their acknowledgment, the command itself and its answer.  A payload
\* is a sequence of pieces of text; a text contains a marker when one of
\* its pieces is the marker.
\* ---------------------------------------------------------------------

CMD_START == "<command>CMD:START</command>"
CMD_END == "<command>CMD:END</command>"
OK == "OK"                      \* "OK\0"
ERR_UNSUPPORTED == "ERR!UNSUPPORTED"

Contains(data, pattern) == \E i \in 1..Len(data) : data[i] = pattern

XmlCmds == {"CMD:NOTIFY-INIT-HW", "CMD:SET-RUNTIME-PARAMETER"}

\* create_cmd(cmd)
create_cmd(cmd) == <<cmd>>

\* one entry of xml_log: a frame read ("read"), a read that gave no frame
\* ("noread"), or a frame sent ("send")
XmlEvent(op, data, ok) == [op |-> op, data |-> data, ok |-> ok]

Pattern_of(lifetime) == IF lifetime = "CmdStart" THEN CMD_START ELSE CMD_END

\* ---- what the device can answer ----
LifetimeReplies ==
    {DevFrame(<<CMD_START>>), DevFrame(<<CMD_END>>), DevFrame(<<"log", CMD_START>>),
     DevFrame(<<"log", CMD_END>>), DevFrame(<<OK>>), BadMagicFrame,
     NoFrame("ioerr"), NoFrame("elapsed")}

AckReplies ==
    {DevFrame(<<OK>>), DevFrame(<<"OK@0x0">>), DevFrame(<<"OK@0x1">>),
     DevFrame(<<ERR_UNSUPPORTED>>), DevFrame(<<"log", ERR_UNSUPPORTED>>),
     DevFrame(<<"ERR!FAILED">>), DevFrame(<<CMD_END>>), BadMagicFrame,
     NoFrame("ioerr")}

\* ---- check_lifetime / read_ack ----
\* any answer counts as the marker asked for
check_lifetime_any(r, lifetime) == [ok |-> TRUE, valid |-> TRUE]

\* timeout(700 ms, read_data): the marker is looked for in the frame read; a
\* wait that elapses counts as a valid lifetime
check_lifetime(r, lifetime) ==
    IF r.kind = "elapsed" THEN [ok |-> TRUE, valid |-> TRUE]
    ELSE IF ~read_data(r).ok THEN [ok |-> FALSE, valid |-> FALSE]
    ELSE [ok |-> TRUE, valid |-> Contains(read_data(r).data, Pattern_of(lifetime))]

\* XmlError::from_message
XmlError_from_message(resp) ==
    [kind |-> IF Contains(resp, ERR_UNSUPPORTED) THEN "UnsupportedCmd"
              ELSE "StatusNotOk"]

\* ERR!UNSUPPORTED is handed on as any other error
read_ack_fatal(r) ==
    IF ~read_data(r).ok THEN [ok |-> FALSE, err |-> "io", kind |-> ""]
    ELSE IF read_data(r).data \in {<<OK>>, <<"OK@0x0">>}
         THEN [ok |-> TRUE, err |-> "none", kind |-> ""]
    ELSE [ok |-> FALSE, err |-> "proto", kind |-> ""]

read_ack(r) ==
    IF ~read_data(r).ok THEN [ok |-> FALSE, err |-> "io", kind |-> ""]
    ELSE IF read_data(r).data \in {<<OK>>, <<"OK@0x0">>}
         THEN [ok |-> TRUE, err |-> "none", kind |-> ""]
    ELSE IF Contains(read_data(r).data, ERR_UNSUPPORTED)
         THEN [ok |-> FALSE, err |-> "Xml",
               kind |-> XmlError_from_message(read_data(r).data).kind]
    ELSE [ok |-> FALSE, err |-> "proto", kind |-> ""]

\* ---- running send_cmd ----
XmlReadEvent(r) ==
    XmlEvent(IF r.kind = "frame" THEN "read" ELSE "noread", r.payload,
             r.kind = "frame")

XmlReturn(ret, log2) ==
    /\ xml_ret' = ret
    /\ xml_pc' = "done"
    /\ xml_log' = log2
    /\ UNCHANGED xml_cmd

XmlGo(pc, log2) ==
    /\ xml_pc' = pc
    /\ xml_log' = log2
    /\ UNCHANGED <<xml_cmd, xml_ret>>

\* send_cmd(cmd): `let xml_str = create_cmd(cmd)`
XmlSendCmd ==
    /\ xml_pc \in {"idle", "done"}
    /\ xml_cmd' \in XmlCmds
    /\ xml_pc' = "start"
    /\ xml_ret' = "none"
    /\ xml_log' = <<>>
    /\ UNCHANGED nonXmlVars

\* lifetime_ack(lifetime): check_lifetime, up to the ack
XmlLifetime ==
    /\ xml_pc \in {"start", "end"}
    /\ \E r \in LifetimeReplies :
        LET lifetime == IF xml_pc = "start" THEN "CmdStart" ELSE "CmdEnd"
            c == check_lifetime(r, lifetime)
            log2 == Append(xml_log, XmlReadEvent(r))
        IN  IF ~c.ok THEN XmlReturn("io", log2)
            ELSE IF ~c.valid THEN XmlReturn("io", log2)
            ELSE XmlGo(IF xml_pc = "start" THEN "ack_start" ELSE "ack_end", log2)
    /\ UNCHANGED nonXmlVars

\* lifetime_ack(lifetime): `self.ack(None)`, and what follows it
XmlAck ==
    /\ xml_pc \in {"ack_start", "ack_end"}
    /\ \E w \in BOOLEAN :
        LET log2 == Append(xml_log, XmlEvent("send", <<OK>>, w))
        IN  IF ~w THEN XmlReturn("io", log2)
            ELSE IF xml_pc = "ack_start" THEN XmlGo("send", log2)
            ELSE XmlReturn("Ok(false)", log2)
    /\ UNCHANGED nonXmlVars

\* `self.send(xml_bytes)`
XmlSend ==
    /\ xml_pc = "send"
    /\ \E w \in BOOLEAN :
        LET log2 == Append(xml_log, XmlEvent("send", create_cmd(xml_cmd), w))
        IN  IF ~w THEN XmlReturn("io", log2) ELSE XmlGo("read_ack", log2)
    /\ UNCHANGED nonXmlVars

\* `match self.read_ack()`
XmlReadAck ==
    /\ xml_pc = "read_ack"
    /\ \E r \in AckReplies :
        LET a == read_ack(r)
            log2 == Append(xml_log, XmlReadEvent(r))
        IN  IF a.ok THEN XmlReturn("Ok(true)", log2)
            ELSE IF a.err = "Xml" /\ a.kind = "UnsupportedCmd" THEN XmlGo("end", log2)
            ELSE XmlReturn(a.err, log2)
    /\ UNCHANGED nonXmlVars

InitXml ==
    /\ ConnIdle
    /\ PortVarsInit
    /\ S1Idle
    /\ FnIdle
    /\ XmlIdle
    /\ XoIdle
    /\ InfoIdle
    /\ UsbIdle
    /\ WireIdle
    /\ backend = "usb_backend"
    /\ connection_type = "Da"
    /\ XfIdle
    /\ dev_pkt = 0
    /\ DevBuilt
    /\ da_data = NoDaData
    /\ the_device = TheDevice(<<>>, <<>>, 1799, 5)
    /\ conn_type = connection_type

NextXml ==
    \/ XmlSendCmd
    \/ XmlLifetime
    \/ XmlAck
    \/ XmlSend
    \/ XmlReadAck

SpecXml == InitXml /\ [][NextXml]_vars

----------------------------------------------------------------------------
\* ---------------------------------------------------------------------
\* Xml::download_file and Xml::progress_report (da/xml/xml_lib.rs): the
\* sub-protocols the device drives after a command.  An XML document is
\* a sequence of pieces, a tag followed by its text; a reader's data is a
\* sequence of one-byte pieces.
\* ---------------------------------------------------------------------

CMD_DOWNLOAD_FILE == "CMD:DOWNLOAD-FILE"
CMD_PROGRESS_REPORT == "CMD:PROGRESS-REPORT"
OK_PROGRESS == "OK!PROGRESS@"
OK_EOT == "OK!EOT"              \* "OK!EOT\0"

HexDigits ==
    <<"0", "1", "2", "3", "4", "5", "6", "7", "8", "9", "a", "b", "c", "d", "e", "f">>

\* format!("{:x}", n)
RECURSIVE LowerHex(_)
LowerHex(n) ==
    IF n < 16 THEN HexDigits[n + 1]
    ELSE LowerHex(n \div 16) \o HexDigits[(n % 16) + 1]

None == "None"

\* ack(value): the text it sends
ack(value) == IF value = None THEN <<OK>> ELSE <<"OK@0x" \o value>>

\* get_tag(xml, tag)
get_tag(xml, tag) ==
    IF \E i \in 1..(Len(xml) - 1) : xml[i] = tag
    THEN [ok |-> TRUE,
          val |-> xml[(CHOOSE i \in 1..(Len(xml) - 1) :
                          /\ xml[i] = tag
                          /\ \A j \in 1..(i - 1) : xml[j] # tag) + 1]]
    ELSE [ok |-> FALSE, val |-> ""]

\* the decimal numerals of 0 to 100
Decimal == [n \in 0..100 |-> ToString(n)]

\* str::parse::<usize>, for the numbers up to max
parse_usize(s, max) ==
    IF \E n \in 0..max : Decimal[n] = s
    THEN [ok |-> TRUE, val |-> CHOOSE n \in 0..max : Decimal[n] = s]
    ELSE [ok |-> FALSE, val |-> 0]

\* get_tag_usize(xml, tag)
get_tag_usize(xml, tag) ==
    IF ~get_tag(xml, tag).ok THEN [ok |-> FALSE, val |-> 0]
    ELSE parse_usize(get_tag(xml, tag).val, MaxPkt + 1)

\* `packet_length.min(size - bytes_sent)`, always a whole packet
to_read_whole(packet_length, size, sent) == packet_length

\* `packet_length.min(size - bytes_sent)`
to_read(packet_length, size, sent) ==
    IF packet_length < size - sent THEN packet_length ELSE size - sent

\* ---- the calls ----
ReaderData(n) == [i \in 1..n |-> "b" \o ToString(i)]

DlArg(size, reader) == [size |-> size, reader |-> reader]

XoCalls ==
    {FnCall("download_file", DlArg(n, ReaderData(n))) : n \in 0..MaxDl}
    \cup {FnCall("download_file", DlArg(n, ReaderData(n - 1))) : n \in 1..MaxDl}
    \cup {FnCall("download_file", DlArg(n, ReaderData(n + 1))) : n \in 0..MaxDl}
    \cup {FnCall("progress_report", DlArg(0, <<>>))}

\* download_file is followed for the events of a whole download,
\* progress_report for MaxFrames frames
MaxXoLog == 4 * MaxDl + 4

MaxPrLog == 2 * MaxFrames + 2

\* ---- what the device can send ----
CmdDoc(command, packet_length) ==
    <<"command", command, "arg/packet_length", packet_length>>

CmdReplies ==
    {DevFrame(CmdDoc(c, ToString(n))) :
        c \in {CMD_DOWNLOAD_FILE, CMD_PROGRESS_REPORT}, n \in 0..MaxPkt}
    \cup {DevFrame(<<"command", CMD_DOWNLOAD_FILE>>),
          DevFrame(CmdDoc(CMD_DOWNLOAD_FILE, "x")),
          DevFrame(<<OK>>), BadMagicFrame, NoFrame("ioerr")}

ProgressReplies ==
    {DevFrame(<<OK_PROGRESS, "5">>), DevFrame(<<OK_PROGRESS, "50">>),
     DevFrame(<<"log">>), DevFrame(<<OK_EOT>>), DevFrame(<<OK_PROGRESS, "x">>),
     DevFrame(<<OK_PROGRESS>>), BadMagicFrame, NoFrame("ioerr")}

DlAckReplies ==
    {DevFrame(<<OK>>), DevFrame(<<"OK@0x0">>), DevFrame(<<"OK@0x1">>),
     DevFrame(<<ERR_UNSUPPORTED>>), BadMagicFrame, NoFrame("ioerr")}

\* ---- locals ----
packet_length == get_tag_usize(xo_resp, "arg/packet_length").val

\* `chunk[..to_read]` after `reader.read_exact(&mut chunk[..to_read])`
DlChunk(call, sent) ==
    SubSeq(call.arg.reader, sent + 1,
           sent + to_read(packet_length, call.arg.size, sent))

\* one entry of xo_log for a read_data: "read" with the payload when it
\* returned one, "noread" when it returned an error
XoReadEvent(r) == XmlEvent(IF read_data(r).ok THEN "read" ELSE "noread",
                           read_data(r).data, read_data(r).ok)

XoReturn(ret, log2) ==
    /\ xo_ret' = ret
    /\ xo_pc' = "done"
    /\ xo_log' = log2
    /\ UNCHANGED xo_call

XoGo(pc, log2) ==
    /\ xo_pc' = pc
    /\ xo_log' = log2
    /\ UNCHANGED <<xo_call, xo_ret>>

\* `while bytes_sent < size`, up to the read of the next chunk from the reader
DlLoop(pl, sent, log2) ==
    IF sent < xo_call.arg.size
    THEN IF Len(xo_call.arg.reader) >= sent + to_read(pl, xo_call.arg.size, sent)
         THEN XoGo("ack_status", log2)
         ELSE XoReturn("io", log2)
    ELSE XoReturn("Ok", log2)

\* `let resp = self.read_data()?`, `get_tag(.., "command")?` and the test of
\* the command
XoReadCmd ==
    /\ xo_pc = "read_cmd"
    /\ \E r \in CmdReplies :
        LET d == read_data(r)
            cmd == get_tag(d.data, "command")
            log2 == Append(xo_log, XoReadEvent(r))
            expected == IF xo_call.fn = "download_file" THEN CMD_DOWNLOAD_FILE
                        ELSE CMD_PROGRESS_REPORT
        IN  IF ~d.ok THEN XoReturn("io", log2) /\ UNCHANGED xo_resp
            ELSE IF ~cmd.ok THEN XoReturn("get_tag", log2) /\ xo_resp' = d.data
            ELSE IF cmd.val # expected THEN XoReturn("proto", log2) /\ xo_resp' = d.data
            ELSE XoGo("ack_cmd", log2) /\ xo_resp' = d.data
    /\ UNCHANGED <<bytes_sent, progress_calls>>
    /\ UNCHANGED nonXoVars

\* download_file: `self.ack(None)`, `self.ack(format!("{:x}", size))`,
\* `self.ack("0")`
DlAck ==
    /\ xo_call.fn = "download_file"
    /\ xo_pc \in {"ack_cmd", "ack_size", "ack_status"}
    /\ \E w \in BOOLEAN :
        LET value == CASE xo_pc = "ack_cmd" -> None
                       [] xo_pc = "ack_size" -> LowerHex(xo_call.arg.size)
                       [] xo_pc = "ack_status" -> "0"
            log2 == Append(xo_log, XmlEvent("send", ack(value), w))
        IN  IF ~w THEN XoReturn("io", log2)
            ELSE XoGo(CASE xo_pc = "ack_cmd" -> "ack_size"
                        [] xo_pc = "ack_size" -> "read_ack_size"
                        [] xo_pc = "ack_status" -> "read_ack_status", log2)
    /\ UNCHANGED <<xo_resp, bytes_sent, progress_calls>>
    /\ UNCHANGED nonXoVars

\* download_file: `self.read_ack()?` and what follows it up to the next
\* frame
DlReadAck ==
    /\ xo_pc \in {"read_ack_size", "read_ack_status", "read_ack_chunk"}
    /\ Len(xo_log) < MaxXoLog
    /\ \E r \in DlAckReplies :
        LET a == read_ack(r)
            log2 == Append(xo_log, XoReadEvent(r))
            pl == get_tag_usize(xo_resp, "arg/packet_length")
            sent == bytes_sent + to_read(pl.val, xo_call.arg.size, bytes_sent)
        IN  IF ~a.ok
            THEN XoReturn(a.err, log2) /\ UNCHANGED <<bytes_sent, progress_calls>>
            ELSE CASE xo_pc = "read_ack_size" ->
                        /\ IF ~pl.ok THEN XoReturn("get_tag", log2)
                           ELSE DlLoop(pl.val, bytes_sent, log2)
                        /\ UNCHANGED <<bytes_sent, progress_calls>>
                   [] xo_pc = "read_ack_status" ->
                        /\ XoGo("send_chunk", log2)
                        /\ UNCHANGED <<bytes_sent, progress_calls>>
                   [] xo_pc = "read_ack_chunk" ->
                        /\ bytes_sent' = sent
                        /\ progress_calls' =
                               Append(progress_calls, <<sent, xo_call.arg.size>>)
                        /\ DlLoop(pl.val, sent, log2)
    /\ UNCHANGED xo_resp
    /\ UNCHANGED nonXoVars

\* download_file: `self.send(&chunk[..to_read])`
DlSendChunk ==
    /\ xo_pc = "send_chunk"
    /\ \E w \in BOOLEAN :
        LET log2 == Append(xo_log, XmlEvent("send", DlChunk(xo_call, bytes_sent), w))
        IN  IF ~w THEN XoReturn("io", log2) ELSE XoGo("read_ack_chunk", log2)
    /\ UNCHANGED <<xo_resp, bytes_sent, progress_calls>>
    /\ UNCHANGED nonXoVars

\* progress_report: `resp = self.read_data()?`
PrReadFrame ==
    /\ xo_pc = "read_frame"
    /\ Len(xo_log) < MaxPrLog
    /\ \E r \in ProgressReplies :
        LET d == read_data(r)
            log2 == Append(xo_log, XoReadEvent(r))
        IN  IF ~d.ok THEN XoReturn("io", log2) /\ UNCHANGED xo_resp
            ELSE XoGo("ack_frame", log2) /\ xo_resp' = d.data
    /\ UNCHANGED <<bytes_sent, progress_calls>>
    /\ UNCHANGED nonXoVars

\* every OK!PROGRESS@ frame counts as the end of the work
progress_value_done(resp_string) == parse_usize("100", 100)

\* the value of an OK!PROGRESS@ frame:
\* `trim_end_matches('\0').split('@').nth(1)` and `prog.parse()`
progress_value(resp_string) ==
    IF Len(resp_string) < 2 THEN parse_usize("", 100)
    ELSE parse_usize(resp_string[2], 100)

\* progress_report: `self.ack(None)?` and the rest of the loop body up to the
\* next read; after the loop `progress(100, 100)`
PrAck ==
    /\ xo_call.fn = "progress_report"
    /\ xo_pc \in {"ack_cmd", "ack_frame"}
    /\ \E w \in BOOLEAN :
        LET log2 == Append(xo_log, XmlEvent("send", ack(None), w))
            v == progress_value(xo_resp)
        IN  IF ~w THEN XoReturn("io", log2) /\ UNCHANGED progress_calls
            ELSE IF xo_pc = "ack_cmd"
                 THEN XoGo("read_frame", log2) /\ UNCHANGED progress_calls
            ELSE IF Len(xo_resp) = 0 \/ xo_resp[1] # OK_PROGRESS
                 THEN IF xo_resp = <<OK_EOT>>
                      THEN /\ XoReturn("Ok", log2)
                           /\ progress_calls' = Append(progress_calls, <<100, 100>>)
                      ELSE XoGo("read_frame", log2) /\ UNCHANGED progress_calls
            ELSE IF ~v.ok THEN XoReturn("proto", log2) /\ UNCHANGED progress_calls
            ELSE /\ XoGo("read_frame", log2)
                 /\ progress_calls' = Append(progress_calls, <<v.val, 100>>)
    /\ UNCHANGED <<xo_resp, bytes_sent>>
    /\ UNCHANGED nonXoVars

InitXmlFile ==
    /\ ConnIdle
    /\ PortVarsInit
    /\ S1Idle
    /\ FnIdle
    /\ XmlIdle
    /\ xo_call \in XoCalls
    /\ xo_pc = "read_cmd"
    /\ xo_ret = "none"
    /\ xo_log = <<>>
    /\ xo_resp = <<>>
    /\ bytes_sent = 0
    /\ progress_calls = <<>>
    /\ InfoIdle
    /\ UsbIdle
    /\ WireIdle
    /\ backend = "usb_backend"
    /\ connection_type = "Da"
    /\ XfIdle
    /\ dev_pkt = 0
    /\ DevBuilt
    /\ da_data = NoDaData
    /\ the_device = TheDevice(<<>>, <<>>, 1799, 5)
    /\ conn_type = connection_type

NextXmlFile ==
    \/ XoReadCmd
    \/ DlAck
    \/ DlReadAck
    \/ DlSendChunk
    \/ PrReadFrame
    \/ PrAck

SpecXmlFile == InitXmlFile /\ [][NextXmlFile]_vars

----------------------------------------------------------------------------
\* ---------------------------------------------------------------------
\* DeviceInfo (core/devinfo.rs): one DevInfoData behind an
\* Arc<RwLock<..>>, of which the facade (Device.dev_info) and the protocol
\* (XFlash.dev_info, a clone made in Device::init) each hold a handle.
\* A getter takes the read guard, clones what it returns field by field
\* and drops the guard; a setter takes the write guard, assigns field by
\* field and drops it.  Values are tags: 0 is the default, set_data(k)
\* writes k to every field.
\* ---------------------------------------------------------------------

Holders == {"facade", "protocol"}

\* the fields of DevInfoData the model keeps, in the order of the struct
InfoFields == <<"chipset", "hw_code", "partitions", "storage">>

DevInfoData_default ==
    [chipset |-> 0, hw_code |-> 0, partitions |-> 0, storage |-> 0]

InfoOp(fn, fields, data) == [fn |-> fn, fields |-> fields, data |-> data]

NoInfoOp == InfoOp("none", <<>>, 0)

Getters ==
    {InfoOp("get_data", InfoFields, 0), InfoOp("hw_code", <<"hw_code">>, 0),
     InfoOp("partitions", <<"partitions">>, 0), InfoOp("storage", <<"storage">>, 0)}

Setters ==
    {InfoOp("set_data", InfoFields, k) : k \in {1, 2}}
    \cup {InfoOp("set_partitions", <<"partitions">>, 3),
          InfoOp("set_storage", <<"storage">>, 3)}

IsSetter(op) == op.fn \in {"set_data", "set_partitions", "set_storage"}

\* RwLock::write: the guard is given without regard to the read guards
CanWrite_shared(h) == writer = "none"

\* RwLock::write: the guard is given when nobody holds a guard
CanWrite(h) == writer = "none" /\ readers = {}

\* RwLock::read: the guard is given when nobody holds the write guard
CanRead(h) == writer = "none"

\* a getter or a setter is called
InfoCall ==
    /\ \E h \in Holders, op \in Getters \cup Setters :
        /\ h_pc[h] = "idle"
        /\ h_pc' = [h_pc EXCEPT ![h] = "lock"]
        /\ h_op' = [h_op EXCEPT ![h] = op]
        /\ h_ret' = [h_ret EXCEPT ![h] = <<>>]
        /\ h_truth' = [h_truth EXCEPT ![h] = <<>>]
    /\ UNCHANGED <<inner, readers, writer, last_write, h_tmp>>
    /\ UNCHANGED nonInfoVars

\* `self.inner().read().await` / `self.inner().write().await`
InfoLock ==
    /\ \E h \in Holders :
        /\ h_pc[h] = "lock"
        /\ IF IsSetter(h_op[h])
           THEN /\ CanWrite(h)
                /\ writer' = h
                /\ UNCHANGED readers
           ELSE /\ CanRead(h)
                /\ readers' = readers \cup {h}
                /\ UNCHANGED writer
        /\ h_pc' = [h_pc EXCEPT ![h] = "held"]
        /\ h_tmp' = [h_tmp EXCEPT ![h] = <<>>]
    /\ UNCHANGED <<inner, last_write, h_op, h_ret, h_truth>>
    /\ UNCHANGED nonInfoVars

\* one field is cloned out of the guard, or assigned through it
InfoField ==
    /\ \E h \in Holders :
        /\ h_pc[h] = "held"
        /\ Len(h_tmp[h]) < Len(h_op[h].fields)
        /\ LET f == h_op[h].fields[Len(h_tmp[h]) + 1]
           IN  IF IsSetter(h_op[h])
               THEN /\ inner' = [inner EXCEPT ![f] = h_op[h].data]
                    /\ h_tmp' = [h_tmp EXCEPT ![h] = Append(@, h_op[h].data)]
               ELSE /\ h_tmp' = [h_tmp EXCEPT ![h] = Append(@, inner[f])]
                    /\ UNCHANGED inner
    /\ UNCHANGED <<readers, writer, last_write, h_pc, h_op, h_ret, h_truth>>
    /\ UNCHANGED nonInfoVars

\* the guard is dropped and the call returns
InfoUnlock ==
    /\ \E h \in Holders :
        /\ h_pc[h] = "held"
        /\ Len(h_tmp[h]) = Len(h_op[h].fields)
        /\ IF IsSetter(h_op[h])
           THEN /\ writer' = IF writer = h THEN "none" ELSE writer
                /\ last_write' = inner
                /\ UNCHANGED <<readers, h_ret, h_truth>>
           ELSE /\ readers' = readers \ {h}
                /\ h_ret' = [h_ret EXCEPT ![h] = h_tmp[h]]
                /\ h_truth' = [h_truth EXCEPT ![h] =
                                  [i \in 1..Len(h_op[h].fields) |->
                                      last_write[h_op[h].fields[i]]]]
                /\ UNCHANGED <<writer, last_write>>
        /\ h_pc' = [h_pc EXCEPT ![h] = "idle"]
    /\ UNCHANGED <<inner, h_op, h_tmp>>
    /\ UNCHANGED nonInfoVars

InitInfo ==
    /\ ConnIdle
    /\ PortVarsInit
    /\ S1Idle
    /\ FnIdle
    /\ XmlIdle
    /\ XoIdle
    /\ UsbIdle
    /\ WireIdle
    /\ inner = DevInfoData_default
    /\ readers = {}
    /\ writer = "none"
    /\ last_write = DevInfoData_default
    /\ h_pc = [h \in Holders |-> "idle"]
    /\ h_op = [h \in Holders |-> NoInfoOp]
    /\ h_tmp = [h \in Holders |-> <<>>]
    /\ h_ret = [h \in Holders |-> <<>>]
    /\ h_truth = [h \in Holders |-> <<>>]
    /\ backend = "usb_backend"
    /\ connection_type = "Da"
    /\ XfIdle
    /\ dev_pkt = 0
    /\ DevBuilt
    /\ da_data = NoDaData
    /\ the_device = TheDevice(<<>>, <<>>, 1799, 5)
    /\ conn_type = connection_type

NextInfo ==
    \/ InfoCall
    \/ InfoLock
    \/ InfoField
    \/ InfoUnlock

SpecInfo == InitInfo /\ [][NextInfo]_vars

----------------------------------------------------------------------------
(* UsbMTKPort: open, close and the transfers of the three backends         *)
(* (usb_backend.rs on nusb, libusb_backend.rs and libusb_backend_exp.rs on *)
(* rusb). A field the struct of a backend does not have is Absent. The     *)
(* handle of the rusb backends carries the interfaces claimed on it; an    *)
(* nusb Interface is the claim of its interface and keeps the device open, *)
(* and so do the endpoint reader and writer made from it.                  *)

Absent == "Absent"

\* rusb DeviceHandle: the interfaces claimed on it
Handle(claimed) == [claimed |-> claimed]

\* UsbMTKPort::new of each backend
UsbMTKPort_new(b, ct) ==
    [backend         |-> b,
     connection_type |-> ct,
     is_open         |-> FALSE,
     handle          |-> CASE b = "libusb_backend"     -> Some(Handle({}))
                           [] b = "libusb_backend_exp" -> NoneOf(Handle({}))
                           [] OTHER                    -> Absent,
     reader          |-> IF b = "usb_backend" THEN NoneOf(1) ELSE Absent,
     writer          |-> IF b = "usb_backend" THEN NoneOf(1) ELSE Absent,
     interface       |-> IF b = "usb_backend" THEN NoneOf(1) ELSE Absent,
     ctrl_interface  |-> IF b = "usb_backend" THEN NoneOf(0) ELSE Absent]

\* the interfaces of the device the port holds a claim on
Claimed(p) ==
    IF p.backend = "usb_backend"
    THEN {i \in {1} : p.interface.some \/ p.reader.some \/ p.writer.some}
         \cup {i \in {0} : p.ctrl_interface.some}
    ELSE IF p.handle.some THEN p.handle.v.claimed ELSE {}

\* the port holds the opened device
HoldsDevice(p) ==
    IF p.backend = "usb_backend" THEN Claimed(p) # {} ELSE p.handle.some

\* what a call leaves: the port, Ok or Err, the USB transfers it submitted
UsbRes(p, ret, transfers) == [port |-> p, ret |-> ret, transfers |-> transfers]

Transfers(kind, n) == [i \in 1..n |-> kind]

\* setup_cdc: SET_LINE_CODING, then SET_CONTROL_LINE_STATE. usb_backend stops
\* at the first failure; libusb_backend ignores both results.
setup_cdc(p) ==
    IF p.backend = "usb_backend"
    THEN {Transfers("ctrl_out", 1), Transfers("ctrl_out", 2)}
    ELSE {Transfers("ctrl_out", 2)}

open(p) ==
    IF p.is_open THEN {UsbRes(p, "ok", <<>>)}
    ELSE CASE p.backend = "usb_backend" ->
                \* info.open, the two claims, select_endpoints and endpoint
                \* fail before any field is assigned
                {UsbRes(p, "err", <<>>)} \cup
                {UsbRes([p EXCEPT !.reader = Some(1), !.writer = Some(1),
                                  !.interface = Some(1),
                                  !.ctrl_interface = Some(0),
                                  !.is_open = TRUE], "ok", t) :
                    t \in IF p.connection_type # "Brom" THEN setup_cdc(p)
                          ELSE {<<>>}}
           [] p.backend = "libusb_backend" ->
                \* the loop over 0..=1 fails at interface 0 or at interface 1
                {UsbRes([p EXCEPT !.handle = Some(Handle(p.handle.v.claimed \cup c))],
                        "err", <<>>) : c \in {{}, {0}}} \cup
                {UsbRes([p EXCEPT !.handle = Some(Handle({0, 1})),
                                  !.is_open = TRUE], "ok", t) :
                    t \in IF p.connection_type # "Brom" THEN setup_cdc(p)
                          ELSE {<<>>}}
           [] OTHER ->
                \* the handle is local to the blocking task until it succeeded
                {UsbRes(p, "err", <<>>),
                 UsbRes([p EXCEPT !.handle = Some(Handle({0, 1})),
                                  !.is_open = TRUE], "ok", <<>>)}

close(p) ==
    IF ~p.is_open THEN {UsbRes(p, "ok", <<>>)}
    ELSE CASE p.backend = "usb_backend" ->
                {UsbRes([p EXCEPT !.reader = NoneOf(1), !.writer = NoneOf(1),
                                  !.interface = NoneOf(1),
                                  !.is_open = FALSE], "ok", <<>>)}
           [] p.backend = "libusb_backend" ->
                \* a release_interface that fails is logged only
                {UsbRes([p EXCEPT !.handle = Some(Handle(c)),
                                  !.is_open = FALSE], "ok", <<>>) :
                    c \in SUBSET p.handle.v.claimed}
           [] OTHER ->
                {UsbRes([p EXCEPT !.handle = NoneOf(Handle({})),
                                  !.is_open = FALSE], "ok", <<>>)}

\* one bulk read: a transfer error or up to `cap` bytes
UsbReplies(cap) ==
    {[ok |-> FALSE, data |-> <<>>]} \cup
    {[ok |-> TRUE, data |-> [i \in 1..n |-> 90]] : n \in 0..cap}

read_exact_of(b, len, total, r) ==
    CASE b = "libusb_backend_exp" -> read_exact_exp(len, total, r)
      [] b = "libusb_backend"     -> read_exact_libusb(len, total, r)
      [] OTHER                    -> read_exact_usb(len, total, r)

\* the loop of read_exact from total_read = total, followed for `fuel` bulk
\* reads: the results it returns with and the bulk reads it made
RECURSIVE ReadRuns(_, _, _, _)
ReadRuns(b, len, total, fuel) ==
    IF ReLoop(len, total).pc = "ok" THEN {[ret |-> "ok", transfers |-> <<>>]}
    ELSE IF fuel = 0 THEN {}
    ELSE UNION {
           LET res == read_exact_of(b, len, total, r) IN
           IF res.pc = "running"
           THEN {[ret |-> x.ret, transfers |-> <<"bulk_in">> \o x.transfers] :
                    x \in ReadRuns(b, len, res.total_read, fuel - 1)}
           ELSE {[ret |-> res.pc, transfers |-> <<"bulk_in">>]} :
           r \in UsbReplies(len - total)}

read_exact(p, len) ==
    IF \/ p.backend = "usb_backend" /\ ~p.reader.some
       \/ p.backend = "libusb_backend_exp" /\ ~p.is_open
    THEN {UsbRes(p, "err", <<>>)}
    ELSE {UsbRes(p, x.ret, x.transfers) :
             x \in ReadRuns(p.backend, len, 0, len + 1)}

write_all(p, len) ==
    CASE p.backend = "usb_backend" ->
            IF ~p.writer.some THEN {UsbRes(p, "err", <<>>)}
            ELSE IF len = 0 THEN {UsbRes(p, "ok", <<>>)}
            ELSE {UsbRes(p, x, Transfers("bulk_out", 1)) : x \in {"ok", "err"}}
      [] p.backend = "libusb_backend" ->
            \* one write_bulk on the handle, whatever is_open says
            {UsbRes(p, x, Transfers("bulk_out", 1)) : x \in {"ok", "err"}}
      [] OTHER ->
            IF ~p.is_open THEN {UsbRes(p, "err", <<>>)}
            ELSE IF len = 0 THEN {UsbRes(p, "ok", <<>>)}
            ELSE {UsbRes(p, x, Transfers("bulk_out", n)) :
                     x \in {"ok", "err"}, n \in 1..len}

\* ctrl_out and ctrl_in: one control transfer on the control interface
\* (usb_backend) or on the handle (rusb backends)
ctrl(p, kind) ==
    IF \/ p.backend = "usb_backend" /\ ~p.ctrl_interface.some
       \/ p.backend = "libusb_backend_exp" /\ ~p.handle.some
    THEN {UsbRes(p, "err", <<>>)}
    ELSE {UsbRes(p, x, Transfers(kind, 1)) : x \in {"ok", "err"}}

ctrl_out(p) == ctrl(p, "ctrl_out")
ctrl_in(p) == ctrl(p, "ctrl_in")

UsbCall(op, before, r) ==
    [op |-> op, before |-> before, ret |-> r.ret, transfers |-> r.transfers]

UsbStep(op, r) ==
    /\ port' = r.port
    /\ usb_call' = UsbCall(op, port, r)

UsbOpen ==
    /\ \E r \in open(port) : UsbStep("open", r)
    /\ UNCHANGED nonUsbVars

UsbClose ==
    /\ \E r \in close(port) : UsbStep("close", r)
    /\ UNCHANGED nonUsbVars

UsbReadExact ==
    /\ \E len \in 0..MaxBuf : \E r \in read_exact(port, len) : UsbStep("read_exact", r)
    /\ UNCHANGED nonUsbVars

UsbWriteAll ==
    /\ \E len \in 0..MaxBuf : \E r \in write_all(port, len) : UsbStep("write_all", r)
    /\ UNCHANGED nonUsbVars

UsbCtrlOut ==
    /\ \E r \in ctrl_out(port) : UsbStep("ctrl_out", r)
    /\ UNCHANGED nonUsbVars

UsbCtrlIn ==
    /\ \E r \in ctrl_in(port) : UsbStep("ctrl_in", r)
    /\ UNCHANGED nonUsbVars

InitUsb ==
    /\ ConnIdle
    /\ PortVarsInit
    /\ S1Idle
    /\ FnIdle
    /\ XmlIdle
    /\ XoIdle
    /\ InfoIdle
    /\ WireIdle
    /\ \E b \in Backends, ct \in ConnectionType :
          /\ port = UsbMTKPort_new(b, ct)
          /\ usb_call = UsbCall("none", port, [ret |-> "none", transfers |-> <<>>])
    /\ backend = "usb_backend"
    /\ connection_type = "Da"
    /\ XfIdle
    /\ dev_pkt = 0
    /\ DevBuilt
    /\ da_data = NoDaData
    /\ the_device = TheDevice(<<>>, <<>>, 1799, 5)
    /\ conn_type = connection_type

NextUsb ==
    \/ UsbOpen
    \/ UsbClose
    \/ UsbReadExact
    \/ UsbWriteAll
    \/ UsbCtrlOut
    \/ UsbCtrlIn

SpecUsb == InitUsb /\ [][NextUsb]_vars

----------------------------------------------------------------------------
(* XFlash DeviceCtrl operations on the wire: get_storage, read32, write32  *)
(* and get_packet_length, frame by frame, against a DA that answers every  *)
(* frame it is sent. src holds two copies of the implementation: mod.rs,   *)
(* whose send_cmd reads no status, and xflash.rs with da_protocol.rs,      *)
(* whose send_cmd reads one; storage.rs serves both, flash.rs goes with    *)
(* mod.rs. The port transfers succeed; a read with nothing sent times out. *)

MaxOps == 3       \* operations begun in one run

Copies == {"mod.rs", "xflash.rs"}

\* ---- the frames ----
StatusFrame(v, op) == [t |-> "status", v |-> v, len |-> 4, op |-> op]
DataFrame(len, zero, op) ==
    [t |-> "data", v |-> IF zero THEN "ok" ELSE "err", len |-> len, op |-> op]

\* get_status on a frame: a payload that is not a status is decoded as one
WireStatusOf(frame) == frame.v

\* ---- the device ----
\* the answer of the DA to one frame of the host in state st: its next
\* state, the frames it sends, and whether it expected the frame
DaStep(st, out, ok) == [st |-> st, out |-> out, ok |-> ok]

NoParam == {"GetEmmcInfo", "GetUfsInfo", "GetPacketLength"}
WithParam == {"DeviceCtrlReadRegister", "SetRegisterValue"}

\* the payload a sub-command is answered with
DaPayload(sub, storage, op) ==
    CASE sub = "GetEmmcInfo"     -> {DataFrame(8, storage # "emmc", op)}
      [] sub = "GetUfsInfo"      -> {DataFrame(8, storage # "ufs", op)}
      [] sub = "GetPacketLength" -> {DataFrame(8, FALSE, op)}
      [] OTHER                   -> {DataFrame(4, z, op) : z \in BOOLEAN}

DaReact(st, frame, storage, op) ==
    CASE st.at = "idle" /\ frame = "DeviceCtrl" ->
            {DaStep([at |-> "ctrl", sub |-> ""], <<StatusFrame("ok", op)>>, TRUE)}
      [] st.at = "ctrl" /\ frame \in NoParam ->
            {DaStep([at |-> "idle", sub |-> ""],
                    <<StatusFrame("ok", op), d, StatusFrame("ok", op)>>, TRUE) :
                d \in DaPayload(frame, storage, op)}
            \cup {DaStep([at |-> "idle", sub |-> ""],
                         <<StatusFrame("err", op)>>, TRUE)}
      [] st.at = "ctrl" /\ frame \in WithParam ->
            {DaStep([at |-> "param", sub |-> frame], <<StatusFrame("ok", op)>>, TRUE),
             DaStep([at |-> "idle", sub |-> ""], <<StatusFrame("err", op)>>, TRUE)}
      [] st.at = "param" /\ frame = "param" /\ st.sub = "SetRegisterValue" ->
            {DaStep([at |-> "idle", sub |-> ""], <<StatusFrame(v, op)>>, TRUE) :
                v \in {"ok", "err"}}
      [] st.at = "param" /\ frame = "param" /\ st.sub = "DeviceCtrlReadRegister" ->
            {DaStep([at |-> "idle", sub |-> ""],
                    <<StatusFrame("ok", op), d, StatusFrame("ok", op)>>, TRUE) :
                d \in DaPayload(st.sub, storage, op)}
            \cup {DaStep([at |-> "idle", sub |-> ""],
                         <<StatusFrame("err", op)>>, TRUE)}
      [] OTHER ->
            \* a frame the DA does not wait for: it answers with an error
            \* and drops what it was doing
            {DaStep([at |-> "idle", sub |-> ""], <<StatusFrame("err", op)>>, FALSE)}

\* ---- the host: an operation as a list of steps ----
\* k: the step; a: the frame sent or the slot a response is kept in;
\* e: where a failure continues (0: the operation returns Err)
WStep(k, a, e) == [k |-> k, a |-> a, e |-> e]

\* send_cmd: mod.rs writes the frame; xflash.rs goes through send_data and
\* reads the status of the frame as well
wire_send_cmd(c, cmd, e) ==
    IF c = "mod.rs" THEN <<WStep("send", cmd, e)>>
    ELSE <<WStep("send", cmd, e), WStep("status", "", e)>>

\* devctrl(cmd, None). mod.rs: send_cmd, get_status, send_cmd, get_status,
\* read_data. xflash.rs: send_cmd, send_cmd, read_data, status_ok!, and the
\* result of read_data is returned after the status
wire_devctrl(c, cmd, slot, e) ==
    IF c = "mod.rs"
    THEN <<WStep("send", "DeviceCtrl", e), WStep("status", "", e),
           WStep("send", cmd, e), WStep("status", "", e),
           WStep("read", slot, e)>>
    ELSE wire_send_cmd(c, "DeviceCtrl", e) \o wire_send_cmd(c, cmd, e)
         \o <<WStep("read_keep", slot, e), WStep("status_drop", slot, e),
              WStep("check", slot, e)>>

\* devctrl(cmd, Some(params)): the parameters are sent with send_data, which
\* reads a status, and Ok(Vec::new()) is returned
wire_devctrl_params(c, cmd, slot, e) ==
    IF c = "mod.rs"
    THEN <<WStep("send", "DeviceCtrl", e), WStep("status", "", e),
           WStep("send", cmd, e), WStep("status", "", e),
           WStep("send", "param", e), WStep("status", "", e),
           WStep("empty", slot, e)>>
    ELSE wire_send_cmd(c, "DeviceCtrl", e) \o wire_send_cmd(c, cmd, e)
         \o <<WStep("send", "param", e), WStep("status", "", e),
              WStep("empty", slot, e)>>

\* storage.rs: both probes run whatever the first one returned, each
\* followed by a get_status whose result is dropped
detect_storage(c) ==
    LET n == Len(wire_devctrl(c, "GetEmmcInfo", "emmc_response", 0)) IN
    wire_devctrl(c, "GetEmmcInfo", "emmc_response", n + 1)
    \o <<WStep("status_any", "", n + 2)>>
    \o [i \in 1..n |->
          LET st == wire_devctrl(c, "GetUfsInfo", "ufs_response", 2 * n + 2)[i]
          IN  st]
    \o <<WStep("status_any", "", 2 * n + 3), WStep("pick", "", 0)>>

\* flash.rs get_packet_length
wire_get_packet_length(c) ==
    wire_devctrl(c, "GetPacketLength", "resp", 0)
    \o <<WStep("status", "", 0), WStep("need", 8, 0)>>

wire_read32(c) ==
    wire_devctrl_params(c, "DeviceCtrlReadRegister", "resp", 0)
    \o <<WStep("need", 4, 0)>>

wire_write32(c) ==
    wire_devctrl_params(c, "SetRegisterValue", "resp", 0)
    \o <<WStep("ok", "", 0)>>

\* get_or_detect_storage: the cached storage, or detect_storage
wire_get_storage(c, cached) ==
    IF cached THEN <<WStep("ok", "", 0)>> ELSE detect_storage(c)

WireOps(c) ==
    IF c = "mod.rs"
    THEN {"get_storage", "read32", "write32", "get_packet_length"}
    ELSE {"get_storage", "read32", "write32"}

WireProg(c, name, cached) ==
    CASE name = "get_storage"       -> wire_get_storage(c, cached)
      [] name = "read32"            -> wire_read32(c)
      [] name = "write32"           -> wire_write32(c)
      [] OTHER                      -> wire_get_packet_length(c)

NoResp == [ok |-> FALSE, len |-> 0, zero |-> TRUE]
Resp(frame) == [ok |-> TRUE, len |-> frame.len, zero |-> frame.v = "ok"]
NoResps == [slot \in {"emmc_response", "ufs_response", "resp"} |-> NoResp]

WireCur == WireProg(copy, w_op.name, w_op.cached)[w_pc]

\* where a step continues: the next step, or the return of the operation
WireGoto(target, ret) ==
    IF target = 0
    THEN /\ w_pc' = 0
         /\ w_ret' = ret
    ELSE /\ w_pc' = target
         /\ w_ret' = w_ret

WireTake(frame) ==
    /\ da_out' = Tail(da_out)
    /\ misread' = (misread \/ frame.op # w_op.id)

\* a public operation begins
WireCall ==
    /\ w_pc = 0
    /\ n_ops < MaxOps
    /\ \E name \in WireOps(copy) :
          w_op' = [name |-> name, id |-> n_ops + 1, cached |-> w_storage]
    /\ n_ops' = n_ops + 1
    /\ w_pc' = 1
    /\ w_ret' = "none"
    /\ w_regs' = NoResps
    /\ UNCHANGED <<copy, w_storage, da_storage, da_st, da_out, stray, misread>>
    /\ UNCHANGED nonWireVars

\* the host writes a frame; the device answers it
WireSend ==
    /\ w_pc > 0
    /\ WireCur.k = "send"
    /\ \E d \in DaReact(da_st, WireCur.a, da_storage, w_op.id) :
          /\ da_st' = d.st
          /\ da_out' = da_out \o d.out
          /\ stray' = (stray \/ ~d.ok)
    /\ WireGoto(w_pc + 1, w_ret)
    /\ UNCHANGED <<copy, w_op, w_regs, w_storage, da_storage, misread, n_ops>>
    /\ UNCHANGED nonWireVars

\* get_status: `?` and `if status != 0`, status_ok!, and `let _ =`
WireStatus ==
    /\ w_pc > 0
    /\ WireCur.k \in {"status", "status_drop", "status_any"}
    /\ IF da_out = <<>>
       THEN /\ UNCHANGED <<da_out, misread>>
            /\ WireGoto(WireCur.e, "err")
            /\ w_regs' = IF WireCur.k = "status_drop"
                         THEN [w_regs EXCEPT ![WireCur.a] = NoResp] ELSE w_regs
       ELSE /\ WireTake(Head(da_out))
            /\ IF WireCur.k = "status_any" \/ WireStatusOf(Head(da_out)) = "ok"
               THEN /\ WireGoto(w_pc + 1, w_ret)
                    /\ w_regs' = w_regs
               ELSE /\ WireGoto(WireCur.e, "err")
                    /\ w_regs' = IF WireCur.k = "status_drop"
                                 THEN [w_regs EXCEPT ![WireCur.a] = NoResp]
                                 ELSE w_regs
    /\ UNCHANGED <<copy, w_op, w_storage, da_storage, da_st, stray, n_ops>>
    /\ UNCHANGED nonWireVars

\* read_data: with `?` in mod.rs; xflash.rs keeps the result for later
WireReadData ==
    /\ w_pc > 0
    /\ WireCur.k \in {"read", "read_keep"}
    /\ IF da_out = <<>>
       THEN /\ UNCHANGED <<da_out, misread, w_regs>>
            /\ IF WireCur.k = "read" THEN WireGoto(WireCur.e, "err")
               ELSE WireGoto(w_pc + 1, w_ret)
       ELSE /\ WireTake(Head(da_out))
            /\ w_regs' = [w_regs EXCEPT ![WireCur.a] = Resp(Head(da_out))]
            /\ WireGoto(w_pc + 1, w_ret)
    /\ UNCHANGED <<copy, w_op, w_storage, da_storage, da_st, stray, n_ops>>
    /\ UNCHANGED nonWireVars

\* the steps that touch no wire: the result of devctrl and what the
\* operation makes of it
WireLocal ==
    /\ w_pc > 0
    /\ WireCur.k \in {"check", "empty", "need", "pick", "ok"}
    /\ CASE WireCur.k = "check" ->
              /\ IF w_regs[WireCur.a].ok THEN WireGoto(w_pc + 1, w_ret)
                 ELSE WireGoto(WireCur.e, "err")
              /\ UNCHANGED <<w_regs, w_storage>>
         [] WireCur.k = "empty" ->
              /\ w_regs' = [w_regs EXCEPT ![WireCur.a] =
                               [ok |-> TRUE, len |-> 0, zero |-> TRUE]]
              /\ WireGoto(w_pc + 1, w_ret)
              /\ UNCHANGED w_storage
         [] WireCur.k = "need" ->
              /\ WireGoto(0, IF w_regs["resp"].len < WireCur.a THEN "err" ELSE "ok")
              /\ UNCHANGED <<w_regs, w_storage>>
         [] WireCur.k = "pick" ->
              LET found == \E slot \in {"emmc_response", "ufs_response"} :
                              w_regs[slot].ok /\ ~w_regs[slot].zero
              IN  /\ WireGoto(0, IF found THEN "ok" ELSE "none")
                  /\ w_storage' = found
                  /\ UNCHANGED w_regs
         [] OTHER ->
              /\ WireGoto(0, "ok")
              /\ UNCHANGED <<w_regs, w_storage>>
    /\ UNCHANGED <<copy, w_op, da_storage, da_st, da_out, stray, misread, n_ops>>
    /\ UNCHANGED nonWireVars

InitWire ==
    /\ ConnIdle
    /\ PortVarsInit
    /\ S1Idle
    /\ FnIdle
    /\ XmlIdle
    /\ XoIdle
    /\ InfoIdle
    /\ UsbIdle
    /\ copy \in Copies
    /\ w_op = [name |-> "none", id |-> 0, cached |-> FALSE]
    /\ w_pc = 0
    /\ w_ret = "none"
    /\ w_regs = NoResps
    /\ w_storage = FALSE
    /\ da_storage \in {"emmc", "ufs"}
    /\ da_st = [at |-> "idle", sub |-> ""]
    /\ da_out = <<>>
    /\ stray = FALSE
    /\ misread = FALSE
    /\ n_ops = 0
    /\ backend = "usb_backend"
    /\ connection_type = "Da"
    /\ XfIdle
    /\ dev_pkt = 0
    /\ DevBuilt
    /\ da_data = NoDaData
    /\ the_device = TheDevice(<<>>, <<>>, 1799, 5)
    /\ conn_type = connection_type

NextWire ==
    \/ WireCall
    \/ WireSend
    \/ WireStatus
    \/ WireReadData
    \/ WireLocal

SpecWire == InitWire /\ [][NextWire]_vars

----------------------------------------------------------------------------
(* XFlash transfers: properties *)

RECURSIVE Concat(_)
Concat(chunks) ==
    IF chunks = <<>> THEN <<>> ELSE Head(chunks) \o Concat(Tail(chunks))

\* data followed by zero bytes up to n, or the first n bytes of data
PadZero(data, n) == [i \in 1..n |-> IF i <= Len(data) THEN data[i] ELSE 0]

IsPrefix(a, b) == Len(a) <= Len(b) /\ a = SubSeq(b, 1, Len(a))

WriteKinds == {"write_partition", "write_offset"}

\* C1: write_flash(addr, size, data): the chunk payloads sent so far, put
\* together in the order sent, are the leading bytes of `data` padded with
\* zeros (or cut) to `size`; each chunk is no longer than the write packet
\* length that was negotiated; and when success is returned the payloads are
\* all of the `size` bytes and the status read after the loop was 0.
C1_WriteFlashChunks ==
    xf_call.kind \in WriteKinds =>
        /\ IsPrefix(Concat(wf_chunks), PadZero(xf_call.data, xf_call.size))
        /\ \A i \in 1..Len(wf_chunks) :
                /\ write_packet_length # NoLen
                /\ Len(wf_chunks[i]) <= write_packet_length
        /\ xf_ret = "ok" =>
                /\ Concat(wf_chunks) = PadZero(xf_call.data, xf_call.size)
                /\ Len(Concat(wf_chunks)) = xf_call.size
                /\ final_status = Zero32

C1_Witness ==
    /\ xf_call.kind = "write_offset"
    /\ xf_ret = "ok"
    /\ Len(xf_call.data) > xf_call.size
    /\ Len(wf_chunks) >= 2

\* C2: against the device that stores each chunk at its offset and serves
\* reads from the same flash, a read_partition(P) that follows a successful
\* write_partition(P, f) returns f followed by zeros up to P.size.
C2_WriteThenRead ==
    ( /\ xf_call.kind = "read_partition"
      /\ xf_ret = "ok"
      /\ op_honest
      /\ prev_call.kind = "write_partition"
      /\ prev_call.name = xf_call.name ) =>
        buffer = PadZero(prev_call.data,
                         get_partition(PartitionTable, xf_call.name).size)

C2_Witness ==
    /\ xf_call.kind = "read_partition"
    /\ xf_call.name = "boot"
    /\ xf_ret = "ok"
    /\ op_honest
    /\ prev_call.kind = "write_partition"
    /\ prev_call.name = "boot"
    /\ Len(prev_call.data) \in 1..(MaxSize - 1)
    /\ Len(buffer) = MaxSize

----------------------------------------------------------------------------
(* Device: properties *)

\* C9: enter_da_mode and the flash operations called before init() has
\* succeeded return an error without wire I/O; once enter_da_mode has
\* succeeded the connection type is DA; connected never goes from true to
\* false and the connection type never leaves DA; a flash operation issued
\* after a successful enter_da_mode does not upload the DA.
C9_Lifecycle ==
    /\ []( (~init_ok /\ last_op.name \in FlashOps \cup {"enter_da_mode"}) =>
                (last_op.ret = "err" /\ ~last_op.io) )
    /\ []( da_entered => (connected /\ conn_type = "Da") )
    /\ []( (last_op.name = "enter_da_mode" /\ last_op.ret = "ok") =>
                conn_type = "Da" )
    /\ [][ /\ connected => connected'
           /\ conn_type = "Da" => conn_type' = "Da" ]_vars
    /\ []( (last_op.name \in FlashOps /\ last_op.entered_before) =>
                ~last_op.upload )

C9_Witness ==
    /\ da_entered
    /\ last_op.name \in FlashOps
    /\ last_op.entered_before
    /\ last_op.ret = "ok"
    /\ last_op.io
    /\ ~last_op.upload

\* C10: after init() returns success DeviceInfo holds the soc_id, meid,
\* hw_code and target_config the device reported, with no storage and an
\* empty partition list, and connected is true; an init() that fails leaves
\* DeviceInfo and connected as they were, and connected is false as long as
\* no init() has succeeded.
C10_InitDeviceInfo ==
    /\ []( (last_op.name = "init" /\ last_op.ret = "ok") =>
                /\ dev_info = [chipset |-> "Unknown",
                               soc_id |-> the_device.soc_id,
                               meid |-> the_device.meid,
                               hw_code |-> the_device.hw_code,
                               partitions |-> <<>>,
                               storage |-> "None",
                               target_config |-> the_device.target_config]
                /\ connected )
    /\ []( ~init_ok => (~connected /\ dev_info = DefaultDevInfo) )
    /\ [][ (last_op'.name = "init" /\ last_op'.ret = "err") =>
                (dev_info' = dev_info /\ connected' = connected) ]_vars

C10_Witness ==
    /\ last_op.name = "init"
    /\ last_op.ret = "ok"
    /\ da_data.present
    /\ connected
    /\ dev_info.soc_id = <<1, 2>>
    /\ dev_info.meid = <<3>>
    /\ dev_info.hw_code = 1799

----------------------------------------------------------------------------
(* Port: properties *)

\* C3: read_exact returns success only when the whole buffer has been filled
\* with bytes received from the device (in every backend).
C3_ReadExactFillsBuffer ==
    re_pc = "ok" =>
        /\ total_read = Len(buf)
        /\ \A i \in 1..Len(buf) : buf[i] \in RxBytes

CanonicalTx == <<160, 10, 80, 5>>

\* C5: on a BROM port whose device answers every byte with its complement,
\* handshake writes exactly 0xA0 0x0A 0x50 0x05 in that order, reads one
\* reply after each byte, never fails, and has succeeded once the four bytes
\* are out.
C5_CanonicalHandshake ==
    (connection_type = "Brom" /\ hs_pc # "idle" /\ all_compl) =>
        /\ hs_pc # "err"
        /\ Len(tx) <= 4
        /\ tx = SubSeq(CanonicalTx, 1, Len(tx))
        /\ n_reads = Len(tx)
        /\ (hs_pc = "ok" <=> Len(tx) = 4)

C5_Witness ==
    /\ connection_type = "Brom"
    /\ all_compl
    /\ hs_pc = "ok"
    /\ tx = CanonicalTx
    /\ n_reads = 4

\* C6: in every backend a reply byte that is neither the complement of the
\* byte just sent nor 0xA0 sends the handshake back to step 0 without failing
\* it (the next byte written is 0xA0 again).
C6_MismatchRestarts ==
    [][ (/\ is_open
         /\ hs_pc = "running"
         /\ last_byte' # NoByte
         /\ last_byte' # Not8(HsByte(step))
         /\ last_byte' # 160)
        => (hs_pc' = "running" /\ step' = 0 /\ HsByte(step') = 160) ]_vars

\* C7: a 0xA0 reply to the first handshake byte ends the handshake with
\* success; a 0xA0 reply to a later byte never completes it.
C7_EarlyExitOnlyAtFirstByte ==
    [][ (/\ is_open
         /\ hs_pc = "running"
         /\ last_byte' = 160)
        => IF step = 0 THEN hs_pc' = "ok" ELSE hs_pc' # "ok" ]_vars

\* C8: whatever the device replies, a running handshake terminates.
C8_HandshakeTerminates ==
    (/\ is_open
     /\ backend \in {"libusb_backend", "libusb_backend_exp"}
     /\ hs_pc = "running") ~> (hs_pc \in {"ok", "err"})

\* ---------------------------------------------------------------------
\* C4  Echo discipline of the preloader commands.  The opcode and every
\* argument group of a command are each written and then read back with
\* the same length; a failed write, a failed read-back or a read-back that
\* differs from what was written ends the command with an error on the
\* spot: no further argument is written and no status or payload is read.
\* A command succeeds only after all of its groups were echoed.
\* ---------------------------------------------------------------------
EchoGroups(name) ==
    CASE name = "jump_da" -> 2
      [] name = "send_da" -> 4
      [] name = "read32" -> 3
      [] OTHER -> 1

C4_EchoDiscipline ==
    conn_pc > 0 =>
        LET k == EchoGroups(conn_cmd.name)
        IN  /\ \A i \in 1..Len(conn_log) :
                    i <= 2 * k =>
                        IF i % 2 = 1
                        THEN /\ conn_log[i].op = "write_all"
                             /\ conn_log[i].ok => Len(conn_log) > i
                             /\ ~conn_log[i].ok =>
                                    (Len(conn_log) = i /\ conn_ret = "err")
                        ELSE /\ conn_log[i].op = "read_exact"
                             /\ conn_log[i].n = Len(conn_log[i - 1].data)
                             /\ (~conn_log[i].ok
                                    \/ conn_log[i].data # conn_log[i - 1].data) =>
                                    (Len(conn_log) = i /\ conn_ret = "err")
            /\ Len(conn_log) > 0 => Len(conn_log[1].data) = 1
            /\ conn_ret = "ok" => Len(conn_log) >= 2 * k

\* send_da stopped by a differing echo of its second argument group
C4_Witness ==
    /\ conn_cmd.name = "send_da"
    /\ conn_ret = "err"
    /\ Len(conn_log) = 6
    /\ conn_log[6].ok
    /\ conn_log[6].data # conn_log[5].data

----------------------------------------------------------------------------
(* DA1 upload: properties *)

\* the value of the status word a logged read_exact returned
StatusValue(call, endian) ==
    IF endian = "le" THEN from_le_bytes(call.data) ELSE from_be_bytes(call.data)

\* send_da makes its port calls in a fixed order: four echoes (a write and a
\* read each, calls 1 to 8), the pre-transfer status (9), the payload (10),
\* the checksum (11), the post-checksum status (12); jump_da makes two echoes
\* and reads its status (5).
\* C11: send_da writes the DA payload only after the first status word it
\* read is zero: with a non-zero pre-transfer status it returns an error and
\* has written no payload byte; with a non-zero status after the checksum it
\* returns an error; jump_da returns an error for a non-zero status; and
\* upload_stage1 calls jump_da only after send_da has returned success.
C11_SendDaStatus ==
    /\ conn_cmd.name = "send_da" =>
        /\ Len(conn_log) >= 10 =>
            /\ conn_log[10].op = "write_all"
            /\ conn_log[10].data = conn_cmd.da_data
            /\ conn_log[9].ok
            /\ StatusValue(conn_log[9], "be") = 0
        /\ (/\ Len(conn_log) >= 9
            /\ conn_log[9].ok
            /\ StatusValue(conn_log[9], "be") # 0) =>
                /\ conn_ret = "err"
                /\ Len(conn_log) = 9
                /\ \A i \in 1..Len(conn_log) :
                    conn_log[i].op = "write_all" => Len(conn_log[i].data) \in {1, 4}
        /\ (/\ Len(conn_log) >= 12
            /\ conn_log[12].ok
            /\ StatusValue(conn_log[12], "be") # 0) => conn_ret = "err"
        /\ conn_ret = "ok" =>
            /\ Len(conn_log) = 12
            /\ StatusValue(conn_log[9], "be") = 0
            /\ StatusValue(conn_log[12], "be") = 0
    /\ conn_cmd.name = "jump_da" =>
        /\ (/\ Len(conn_log) >= 5
            /\ conn_log[5].ok
            /\ StatusValue(conn_log[5], "le") # 0) => conn_ret = "err"
        /\ conn_ret = "ok" =>
            /\ Len(conn_log) = 5
            /\ StatusValue(conn_log[5], "le") = 0
        /\ s1_pc # "idle" =>
            /\ Len(s1_log) >= 1
            /\ s1_log[1] = S1Event("send_da", <<>>, TRUE)
    /\ s1_pc \in {"send_da", "jump_da"} => conn_cmd.name = s1_pc
    /\ (s1_pc = "done" /\ Len(s1_log) = 1) =>
        /\ s1_log[1] = S1Event("send_da", <<>>, FALSE)
        /\ conn_cmd.name = "send_da"
        /\ s1_ret = "conn"

\* upload_stage1 has returned the error of a send_da whose pre-transfer
\* status was 1: a non-empty DA image, none of it written, jump_da not called
C11_Witness ==
    /\ s1_pc = "done"
    /\ s1_ret = "conn"
    /\ conn_cmd.name = "send_da"
    /\ conn_cmd.da_data = <<7, 8>>
    /\ conn_ret = "err"
    /\ Len(conn_log) = 9
    /\ conn_log[9].ok
    /\ StatusValue(conn_log[9], "be") = 1

\* the two port writes of one framed message
FramedWrites(payload) ==
    << [ev |-> "write", fixed |-> TRUE, data |-> generate_header(payload)],
       [ev |-> "write", fixed |-> TRUE, data |-> payload] >>

AnyEvent(ev) == [ev |-> ev, fixed |-> FALSE, data |-> <<>>]

\* the order of the steps of the DA1 upload
Stage1Order ==
    << AnyEvent("send_da"), AnyEvent("jump_da"), AnyEvent("sync_byte") >>
    \o FramedWrites(<<83, 89, 78, 67>>)
    \o FramedWrites(<<0, 1, 1, 0>>)
    \o FramedWrites(<<2, 0, 0, 0, 1, 0, 0, 0, 1, 0, 0, 0, 0, 0, 0, 0, 0, 0, 0, 0>>)
    \o << AnyEvent("status") >>
    \o FramedWrites(<<1, 1, 1, 0>>)
    \o << AnyEvent("write"), AnyEvent("write"), AnyEvent("status"),
          AnyEvent("sync") >>

\* C12: upload_stage1 runs send_da, jump_da, the read of one sync byte, the
\* SyncSignal message, SetupEnvironment and its parameter {2,1,1,0,0},
\* SetupHwInitParams and its parameter, and the wait for the device's
\* SyncSignal, in this order; a sync byte other than 0xC0 ends it with a
\* Protocol error before any framed message is written; it returns success
\* only when the device's SyncSignal has been received.
C12_Stage1Order ==
    /\ Len(s1_log) <= Len(Stage1Order)
    /\ \A i \in 1..Len(s1_log) :
        /\ s1_log[i].ev = Stage1Order[i].ev
        /\ Stage1Order[i].fixed => s1_log[i].data = Stage1Order[i].data
        /\ i < Len(s1_log) => s1_log[i].ok
    /\ Len(s1_log) >= 14 => s1_log[13].data = generate_header(s1_log[14].data)
    /\ (Len(s1_log) >= 3 /\ s1_log[3].ok /\ s1_log[3].data # <<192>>) =>
        /\ s1_ret = "proto"
        /\ Len(s1_log) = 3
    /\ s1_ret = "ok" =>
        /\ Len(s1_log) = Len(Stage1Order)
        /\ s1_log[Len(s1_log)].ok
        /\ s1_log[Len(s1_log)].data = <<83, 89, 78, 67>>

\* upload_stage1 has returned Ok(true)
C12_Witness ==
    /\ s1_pc = "done"
    /\ s1_ret = "ok"
    /\ s1_file = "mod.rs"
    /\ Len(s1_log) = 16

----------------------------------------------------------------------------
(* DA selection: properties *)

\* the codes of the lookup table, and three that are not in it
HwCodes ==
    {633, 801, 806, 821, 823, 1287, 1361, 1378, 1537, 1587, 1672, 1680, 1689,
     1799, 1815, 1829, 1894, 1928, 2067, 2070, 2182, 2312, 2352, 2384, 2393,
     2441, 2454, 4198, 25987, 33138, 33142}
    \cup {25984, 26472, 26469}

\* the entries of a container with a given code, in container order
RECURSIVE EntriesWith(_, _)
EntriesWith(das, code) ==
    IF das = <<>> THEN <<>>
    ELSE IF das[1].hw_code = code THEN <<das[1]>> \o EntriesWith(Tail(das), code)
    ELSE EntriesWith(Tail(das), code)

\* C13: get_da_from_hw_code maps the code through the lookup table (0x707 to
\* 0x6768; a code that is not in the table to itself) and returns the first
\* entry, in container order, whose hw_code is the mapped code, and no entry
\* when none has it; Device::init then fails instead of taking another entry.
C13_SelectDa ==
    /\ DaCode(1799) = 26472
    /\ DaCode(25984) = 25984
    /\ \A h \in HwCodes :
        LET with == EntriesWith(da_data.das, DaCode(h))
            da == get_da_from_hw_code(da_data.das, h)
        IN  /\ with = <<>> => da = NoDa
            /\ with # <<>> => da = with[1]
    /\ LET with == EntriesWith(da_data.das, DaCode(the_device.hw_code))
       IN  /\ (da_data.present /\ with = <<>>) =>
                /\ ~init_ok
                /\ protocol = "None"
                /\ proto_da = NoDa
                /\ last_op.name = "init" => last_op.ret = "err"
           /\ protocol = "Some" =>
                /\ with # <<>>
                /\ proto_da = with[1]
           /\ (da_data.present /\ with # <<>> /\ with[1].da_type # "V5") =>
                /\ ~init_ok
                /\ protocol = "None"

\* init has failed for a device that reports 0x707 with a container that holds
\* an entry for 0x707 itself and none for 0x6768
C13_Witness ==
    /\ last_op.name = "init"
    /\ last_op.ret = "err"
    /\ last_op.io
    /\ the_device.hw_code = 1799
    /\ da_data.present
    /\ da_data.parses
    /\ Len(da_data.das) = 2
    /\ da_data.das[1].hw_code = 1799
    /\ EntriesWith(da_data.das, 26472) = <<>>
    /\ protocol = "None"

----------------------------------------------------------------------------
(* DA container, frames and checksums: properties *)

\* the dialect of a container: V6 when the header holds "MTK_DA_v6", else
\* Legacy when 0xDADA is at 0x6C + 0xD8, else V5
DialectOf(c) ==
    IF c.v6_tag THEN "V6"
    ELSE IF c.legacy_magic THEN "Legacy"
    ELSE "V5"

Da2HasSecro(entry) == Len(entry.secro) >= 3 /\ entry.secro[3]

\* C14: parse_da classifies a container as V6 whenever its header contains
\* "MTK_DA_v6", otherwise as Legacy when the 0xDADA magic is at the legacy
\* header offset, otherwise as V5; an entry is reclassified Legacy exactly
\* when its DA2 region contains "AND_SECRO_v".
C14_Dialect ==
    (fn_call.fn = "parse_da" /\ fn_ret.done /\ fn_ret.val.ok) =>
        /\ fn_ret.val.da_type = DialectOf(fn_call.arg)
        /\ \A i \in 1..Len(fn_ret.val.das) :
            fn_ret.val.das[i].da_type =
                IF Da2HasSecro(fn_call.arg.entries[i]) THEN "Legacy"
                ELSE fn_ret.val.da_type

ReadsFrame == fn_call.fn \in {"xflash.read_data", "xml.read_data", "get_status"}

\* C15: a frame the host builds (generate_header(p) followed by p) is read
\* back as length len(p) and payload p; a header whose magic is not
\* 0xFEEEEEEF is rejected by read_data and get_status, in XFlash and XML,
\* with a Protocol error and without reading a payload byte.
C15_FrameRoundTrip ==
    (ReadsFrame /\ fn_ret.done) =>
        /\ \A p \in FramePayloads :
            (fn_call.fn # "get_status" /\ fn_call.arg = generate_header(p) \o p) =>
                /\ fn_ret.val.ok
                /\ fn_ret.val.val = p
                /\ fn_ret.val.taken = Len(p)
        /\ (Len(fn_call.arg) >= 12 /\ SubSeq(fn_call.arg, 1, 4) # <<239, 238, 238, 254>>) =>
                /\ ~fn_ret.val.ok
                /\ fn_ret.val.taken = 0
                /\ fn_ret.val.err.kind = "proto"

\* the status a payload stands for, as the four bytes of a little-endian u32
StatusOf(p) ==
    IF Len(p) = 2 THEN to_le_bytes(p[1] + 256 * p[2], 4)
    ELSE IF p = <<239, 238, 238, 254>> THEN <<0, 0, 0, 0>>
    ELSE SubSeq(p, 1, 4)

\* C16: get_status decodes a 2-byte payload as u16 little-endian, a 4-byte
\* payload as u32 little-endian with 0xFEEEEEEF mapped to 0, a longer payload
\* as its first u32 little-endian; it returns success exactly when the status
\* is 0 or 0x434E5953, and otherwise an XFlash error carrying the status.
C16_GetStatus ==
    (fn_call.fn = "get_status" /\ fn_ret.done) =>
        \A p \in FramePayloads :
            (fn_call.arg = generate_header(p) \o p /\ (Len(p) = 2 \/ Len(p) >= 4)) =>
                /\ fn_ret.val.ok <=> StatusOf(p) \in {<<0, 0, 0, 0>>, <<83, 89, 78, 67>>}
                /\ fn_ret.val.ok => fn_ret.val.val = StatusOf(p)
                /\ ~fn_ret.val.ok => fn_ret.val.err = [kind |-> "XFlash", code |-> StatusOf(p)]

\* get_status has read a 4-byte status of 0xFEEEEEEF and returned Ok(0)
C16_Witness ==
    /\ fn_call.fn = "get_status"
    /\ fn_call.arg = generate_header(MagicLE) \o MagicLE
    /\ fn_ret.done
    /\ fn_ret.val.ok
    /\ fn_ret.val.val = <<0, 0, 0, 0>>

\* C17: the checksum write_flash sends immediately before a chunk is the sum
\* of the chunk's bytes modulo 0x10000.
C17_Checksum ==
    (fn_call.fn = "write_flash" /\ fn_ret.done) =>
        LET run == fn_call.arg
            total == run[1] * run[2] + run[3] * run[4]
        IN  /\ Len(fn_ret.val) = 3
            /\ fn_ret.val[3] = ChunkOf(run)
            /\ Len(fn_ret.val[2]) = 4
            /\ from_le_bytes(fn_ret.val[2]) = total % 65536

\* the messages of a chunk whose bytes add up to more than 0xFFFF
C17_Witness ==
    /\ fn_call.fn = "write_flash"
    /\ fn_ret.done
    /\ fn_call.arg = <<255, ChunkLen, 255, 200>>
    /\ 255 * ChunkLen + 255 * 200 >= 65536
    /\ fn_ret.val[3] = ChunkOf(fn_call.arg)

----------------------------------------------------------------------------
(* Partition transfers: properties *)

\* the partition the last call named, in the partition list it looked in
NamedPartition == get_partition(dev_info.partitions, op_req.pname)

WriteRefused ==
    /\ last_op.name = "write_partition"
    /\ \/ NamedPartition = NoPartition
       \/ op_req.len > NamedPartition.size

ReadRefused ==
    /\ last_op.name = "read_partition"
    /\ NamedPartition = NoPartition

\* C18 as stated: write_partition returns an error and issues no WriteData
\* command when the name is not in the partition list or the data is longer
\* than the partition; read_partition returns an error and issues no
\* ReadData command when the name is not in the partition list.
C18_NoTransfer ==
    /\ WriteRefused => (last_op.ret = "err" /\ "write_flash" \notin op_flash)
    /\ ReadRefused => (last_op.ret = "err" /\ "read_flash" \notin op_flash)

\* C18, amended: write_partition returns an error and issues no WriteData
\* command when the name is not in the partition list or the data is longer
\* than the partition; read_partition returns an error when the name is not
\* in the partition list, and the only ReadData command it then issues is the
\* read of the partition table by enter_da_mode, when the call had to enter
\* DA mode itself.
C18_NoTransferButGpt ==
    /\ WriteRefused => (last_op.ret = "err" /\ "write_flash" \notin op_flash)
    /\ ReadRefused =>
        /\ last_op.ret = "err"
        /\ "read_flash" \in op_flash => (last_op.upload /\ ~last_op.entered_before)
    /\ (WriteRefused \/ ReadRefused) =>
        op_flash \subseteq (IF last_op.upload THEN {"read_flash"} ELSE {})

\* write_partition has refused two bytes for the one-byte partition lk, on a
\* device already in DA mode
C18_Witness ==
    /\ last_op.name = "write_partition"
    /\ last_op.ret = "err"
    /\ ~last_op.upload
    /\ op_req = Req("lk", 2)
    /\ NamedPartition # NoPartition
    /\ NamedPartition.size = 1
    /\ conn_type = "Da"
    /\ op_flash = {}

----------------------------------------------------------------------------
(* XML commands: properties *)

\* the places of xml_log where the command XML was handed to the port
XmlWrittenAt == {i \in 1..Len(xml_log) : xml_log[i].op = "send" /\ xml_log[i].data # <<"OK">>}

HasMarker(e, marker) ==
    e.op = "read" /\ \E k \in 1..Len(e.data) : e.data[k] = marker

\* the acknowledgments of the log, and the reads they answer
XmlAcksAt == {i \in 1..Len(xml_log) : xml_log[i].op = "send" /\ xml_log[i].data = <<"OK">>}

\* C19: the command XML is written only after a frame with the CMD:START
\* marker has been read, or the wait for it has elapsed, and OK\0 has been
\* sent for it; a frame read in place of CMD:START or CMD:END that lacks the
\* marker ends lifetime_ack with an error and without an acknowledgment; a
\* device that sends nothing at all never gets success.
C19_Lifetime ==
    /\ \A i \in XmlWrittenAt :
        /\ i = 3
        /\ xml_log[i].data = <<xml_cmd>>
        /\ \/ HasMarker(xml_log[1], "<command>CMD:START</command>")
           \/ xml_log[1].op = "noread"
        /\ xml_log[2] = [op |-> "send", data |-> <<"OK">>, ok |-> TRUE]
    /\ \A i \in XmlAcksAt :
        /\ i \in {2, 6}
        /\ LET marker == IF i = 2 THEN "<command>CMD:START</command>"
                         ELSE "<command>CMD:END</command>"
           IN  HasMarker(xml_log[i - 1], marker) \/ xml_log[i - 1].op = "noread"
    /\ \A i \in {1, 5} :
        (/\ Len(xml_log) >= i
         /\ xml_log[i].op = "read"
         /\ ~HasMarker(xml_log[i], IF i = 1 THEN "<command>CMD:START</command>"
                                   ELSE "<command>CMD:END</command>")) =>
            /\ Len(xml_log) = i
            /\ xml_pc = "done"
            /\ xml_ret \notin {"none", "Ok(true)", "Ok(false)"}
    /\ (xml_pc = "done" /\ \A i \in 1..Len(xml_log) : xml_log[i].op # "read") =>
        xml_ret \notin {"none", "Ok(true)", "Ok(false)"}

\* against a device that sent nothing, send_cmd has assumed the START,
\* acknowledged it, written the command and failed on the missing answer
C19_Witness ==
    /\ xml_pc = "done"
    /\ xml_ret = "io"
    /\ Len(xml_log) = 4
    /\ xml_log[1].op = "noread"
    /\ xml_log[3] = [op |-> "send", data |-> <<xml_cmd>>, ok |-> TRUE]
    /\ xml_log[4].op = "noread"

UnsupportedAt(i) ==
    /\ Len(xml_log) >= i
    /\ HasMarker(xml_log[i], "ERR!UNSUPPORTED")

\* C20: after an ERR!UNSUPPORTED answer send_cmd goes on to read the CMD:END
\* lifetime and sends OK\0 for it before it returns; it then returns
\* Ok(false), which is neither the Ok(true) of a success nor an error.
C20_Unsupported ==
    /\ UnsupportedAt(4) =>
        /\ xml_ret \notin {"Ok(true)", "proto", "Xml"}
        /\ Len(xml_log) = 4 => (xml_pc = "end" /\ xml_ret = "none")
        /\ (Len(xml_log) >= 5 /\ HasMarker(xml_log[5], "<command>CMD:END</command>")) =>
            /\ Len(xml_log) = 5 => (xml_pc = "ack_end" /\ xml_ret = "none")
            /\ Len(xml_log) >= 6 =>
                /\ xml_log[6].op = "send"
                /\ xml_log[6].data = <<"OK">>
                /\ xml_log[6].ok => xml_ret = "Ok(false)"
    /\ xml_ret = "Ok(false)" =>
        /\ UnsupportedAt(4)
        /\ Len(xml_log) = 6
        /\ xml_log[6] = [op |-> "send", data |-> <<"OK">>, ok |-> TRUE]
    /\ xml_ret = "Ok(true)" =>
        /\ Len(xml_log) = 4
        /\ xml_log[4].op = "read"
        /\ xml_log[4].data \in {<<"OK">>, <<"OK@0x0">>}

\* send_cmd has returned Ok(false) after ERR!UNSUPPORTED, CMD:END and its OK\0
C20_Witness ==
    /\ xml_pc = "done"
    /\ xml_ret = "Ok(false)"
    /\ UnsupportedAt(4)
    /\ HasMarker(xml_log[5], "<command>CMD:END</command>")
    /\ xml_log[6] = [op |-> "send", data |-> <<"OK">>, ok |-> TRUE]

----------------------------------------------------------------------------
(* XML sub-protocols: properties *)

IsDownload == xo_call.fn = "download_file"

\* the position in xo_log of the k-th chunk (k from 0): after the command,
\* its ack, the size and the ack of the size come four events for each chunk
ChunkAt(k) == 4 + 4 * k + 3

\* the event download_file makes at position i of its log, given the
\* packet length the device announced
DlExpected(i, e) ==
    CASE i = 1 -> e.op \in {"read", "noread"}
      [] i = 2 -> e.op = "send" /\ e.data = <<"OK">>
      [] i = 3 -> e.op = "send" /\ e.data = <<"OK@0x" \o LowerHex(xo_call.arg.size)>>
      [] i = 4 -> e.op \in {"read", "noread"}
      [] i > 4 /\ i % 4 = 1 -> e.op = "send" /\ e.data = <<"OK@0x0">>
      [] i > 4 /\ i % 4 = 2 -> e.op \in {"read", "noread"}
      [] i > 4 /\ i % 4 = 3 -> e.op = "send" /\ Len(e.data) <= packet_length
      [] i > 4 /\ i % 4 = 0 -> e.op \in {"read", "noread"}

\* the data bytes handed to send in the first n events of the log
RECURSIVE DataSent(_, _)
DataSent(log, n) ==
    IF n = 0 THEN <<>>
    ELSE IF n > 4 /\ n % 4 = 3 THEN DataSent(log, n - 1) \o log[n].data
    ELSE DataSent(log, n - 1)

\* an event after which download_file cannot go on: a frame that was not
\* read, a write that failed, an answer that is no OK
DlFailed(i, e) ==
    \/ ~e.ok
    \/ i >= 4 /\ i % 4 # 3 /\ e.op = "read" /\ e.data \notin {<<"OK">>, <<"OK@0x0">>}

\* C21: download_file sends OK and OK@0x<size> after the device's
\* CMD:DOWNLOAD-FILE and reads an ack, then for each chunk sends OK@0x0, reads
\* an ack, sends the chunk and reads an ack, in that order; every chunk is at
\* most packet_length long, the chunks are consecutive slices of the reader's
\* data, the data sent is `size` bytes in all when download_file returns Ok,
\* and an ack that is not OK ends the transfer with an error and no further
\* chunk.
C21_DownloadFile ==
    IsDownload =>
        /\ \A i \in 1..Len(xo_log) : DlExpected(i, xo_log[i])
        /\ Len(xo_log) >= 2 =>
               get_tag(xo_log[1].data, "command").val = "CMD:DOWNLOAD-FILE"
        /\ LET sent == DataSent(xo_log, Len(xo_log))
           IN  /\ Len(sent) <= Len(xo_call.arg.reader)
               /\ sent = SubSeq(xo_call.arg.reader, 1, Len(sent))
               /\ xo_ret = "Ok" =>
                      /\ Len(sent) = xo_call.arg.size
                      /\ bytes_sent = xo_call.arg.size
        /\ \A i \in 1..Len(xo_log) :
               DlFailed(i, xo_log[i]) =>
                   /\ i = Len(xo_log)
                   /\ xo_ret \notin {"none", "Ok"}

\* a download of the largest size in two packets or more, the last one short
C21_Witness ==
    /\ IsDownload
    /\ xo_ret = "Ok"
    /\ xo_call.arg.size = MaxDl
    /\ packet_length = 2
    /\ Len(xo_log) > ChunkAt(1)
    /\ Len(xo_log[ChunkAt(1)].data) < packet_length

IsProgress == xo_call.fn = "progress_report"

IsRead(e) == e.op = "read" /\ e.ok

IsAck(e) == e.op = "send" /\ e.data = <<"OK">>

\* the number an OK!PROGRESS@<n> frame carries, -1 for any other frame
ProgressOf(data) ==
    IF \E n \in 0..100 : data = <<"OK!PROGRESS@", Decimal[n]>>
    THEN CHOOSE n \in 0..100 : data = <<"OK!PROGRESS@", Decimal[n]>>
    ELSE -1

\* the numbers of the OK!PROGRESS@<n> frames among the first n events that
\* were read and acknowledged
RECURSIVE ProgressSeen(_, _)
ProgressSeen(log, n) ==
    IF n < 2 THEN <<>>
    ELSE IF /\ IsRead(log[n - 1])
            /\ log[n].op = "send"
            /\ log[n].ok
            /\ ProgressOf(log[n - 1].data) >= 0
         THEN Append(ProgressSeen(log, n - 1), <<ProgressOf(log[n - 1].data), 100>>)
         ELSE ProgressSeen(log, n - 1)

\* C22: progress_report acknowledges the CMD:PROGRESS-REPORT frame and then
\* every frame it receives, each exactly once; it calls the progress callback
\* once for each OK!PROGRESS@<n> frame, with that n; it returns Ok only after an
\* OK!EOT frame has been received and acknowledged, and reads no frame after
\* that one.
C22_ProgressReport ==
    IsProgress =>
        /\ \A i \in 1..Len(xo_log) :
               /\ (i > 1 /\ IsRead(xo_log[i])) =>
                      \/ i < Len(xo_log) /\ IsAck(xo_log[i + 1])
                      \/ i = Len(xo_log) /\ xo_ret = "none"
               /\ (i = 1 /\ Len(xo_log) > 1) =>
                      /\ get_tag(xo_log[1].data, "command").val = "CMD:PROGRESS-REPORT"
                      /\ IsAck(xo_log[2])
               /\ xo_log[i].op = "send" =>
                      /\ i > 1
                      /\ IsRead(xo_log[i - 1])
                      /\ IsAck(xo_log[i])
               /\ (IsRead(xo_log[i]) /\ xo_log[i].data = <<"OK!EOT">>) =>
                      Len(xo_log) <= i + 1
        /\ xo_ret # "Ok" => progress_calls = ProgressSeen(xo_log, Len(xo_log))
        /\ xo_ret = "Ok" =>
               /\ Len(xo_log) >= 4
               /\ IsRead(xo_log[Len(xo_log) - 1])
               /\ xo_log[Len(xo_log) - 1].data = <<"OK!EOT">>
               /\ IsAck(xo_log[Len(xo_log)])
               /\ xo_log[Len(xo_log)].ok
               /\ progress_calls =
                      Append(ProgressSeen(xo_log, Len(xo_log)), <<100, 100>>)

\* a report with two different progress values and a frame that is neither a
\* progress value nor the end
C22_Witness ==
    /\ IsProgress
    /\ xo_ret = "Ok"
    /\ Len(progress_calls) = 3
    /\ progress_calls[1] # progress_calls[2]
    /\ \E i \in 1..Len(xo_log) : IsRead(xo_log[i]) /\ xo_log[i].data = <<"log">>

----------------------------------------------------------------------------
(* SecCfg: properties *)

\* C23: set_lock_state(Lock) sets lock_state to 4 and critical_lock_state to
\* 1, set_lock_state(Unlock) sets them to 3 and 0; seccfg_ver, seccfg_size and
\* sboot_runtime stay as they were, and the block created afterwards decodes
\* to those lock values and to the version the value had.
C23_SetLockState ==
    (fn_call.fn = "set_lock_state" /\ fn_ret.done) =>
        LET s == fn_call.arg.s
            t == fn_ret.val
            p == parse_header_v4(create(t))
        IN  /\ fn_call.arg.lock_flag = "Lock" =>
                   t.lock_state = 4 /\ t.critical_lock_state = 1
            /\ fn_call.arg.lock_flag = "Unlock" =>
                   t.lock_state = 3 /\ t.critical_lock_state = 0
            /\ t.seccfg_ver = s.seccfg_ver
            /\ t.seccfg_size = s.seccfg_size
            /\ t.sboot_runtime = s.sboot_runtime
            /\ p.ok
            /\ p.s.lock_state = t.lock_state
            /\ p.s.critical_lock_state = t.critical_lock_state
            /\ p.s.seccfg_ver = s.seccfg_ver

\* a locked value is unlocked
C23_Witness ==
    /\ fn_call.fn = "set_lock_state"
    /\ fn_ret.done
    /\ fn_call.arg.lock_flag = "Unlock"
    /\ fn_call.arg.s.lock_state = 4
    /\ fn_call.arg.s.critical_lock_state = 1
    /\ fn_ret.val.lock_state = 3

\* the hash bytes create writes for s: the hash s holds, or the digest of its
\* header when it holds none
HashBytes(s) == IF s.enc_hash.some THEN s.enc_hash.v ELSE get_hash(s)

\* the layout has 32 bytes of hash
WellFormed(s) == Len(HashBytes(s)) = 32

\* C24: for a well-formed SecCfgV4 s, parse_header(create(s)) succeeds and
\* gives the seccfg_ver, seccfg_size, lock_state, critical_lock_state,
\* sboot_runtime and hash bytes of s; the buffer create returns is a non-zero
\* multiple of 0x200 bytes long and is zero after its first 60 bytes.
C24_RoundTrip ==
    (fn_call.fn = "create" /\ fn_ret.done /\ WellFormed(fn_call.arg)) =>
        LET s == fn_call.arg
            data == fn_ret.val
            p == parse_header_v4(data)
        IN  /\ p.ok
            /\ p.s.seccfg_ver = s.seccfg_ver
            /\ p.s.seccfg_size = s.seccfg_size
            /\ p.s.lock_state = s.lock_state
            /\ p.s.critical_lock_state = s.critical_lock_state
            /\ p.s.sboot_runtime = s.sboot_runtime
            /\ p.s.enc_hash = Some(HashBytes(s))
            /\ Len(data) > 0
            /\ Len(data) % 512 = 0
            /\ \A i \in 61..Len(data) : data[i] = 0

\* a value holding a 32-byte hash and a lock state of four different bytes
C24_Witness ==
    /\ fn_call.fn = "create"
    /\ fn_ret.done
    /\ fn_call.arg.enc_hash.some
    /\ WellFormed(fn_call.arg)
    /\ fn_call.arg.lock_state = 16909060
    /\ Len(fn_ret.val) = 512

----------------------------------------------------------------------------
(* DeviceInfo: properties *)

Holding(h) == h_pc[h] = "held"

\* C25: with the facade and the protocol calling the getters and setters of
\* one DeviceInfo in any interleaving, a setter that holds the guard excludes
\* every other setter and every getter; what a getter returns is what the
\* completed setter calls had left when it returned, so a write completed by
\* one holder is seen by the later reads of the other; and get_data never
\* returns fields of two different set_data calls.
C25_SharedInfo ==
    /\ writer # "none" => readers = {}
    /\ \A h \in Holders :
        /\ (Holding(h) /\ IsSetter(h_op[h])) =>
               /\ writer = h
               /\ \A g \in Holders \ {h} : ~Holding(g)
        /\ (Holding(h) /\ ~IsSetter(h_op[h])) =>
               /\ h \in readers
               /\ writer = "none"
               /\ inner = last_write
        /\ h_ret[h] # <<>> =>
               /\ h_ret[h] = h_truth[h]
               /\ h_op[h].fn = "get_data" => h_ret[h][1] = h_ret[h][2]
    /\ writer = "none" => inner = last_write

\* the facade is half way through the clone of get_data, of a record the
\* protocol wrote, while the protocol waits for the write guard
C25_Witness ==
    /\ Holding("facade")
    /\ h_op["facade"].fn = "get_data"
    /\ h_tmp["facade"] = <<2, 2>>
    /\ h_pc["protocol"] = "lock"
    /\ h_op["protocol"] = InfoOp("set_data", InfoFields, 1)
    /\ inner.partitions = 3

----------------------------------------------------------------------------
(* DA upload and DA2 patch: properties *)

IsUpload == fn_call.fn = "upload_da" /\ fn_ret.done

\* the DA2 patch step of this call ran and gave no patched region
PatchFailed ==
    /\ fn_ret.val.ran
    /\ ~fn_call.arg.env.carbonara.ok \/ ~fn_call.arg.env.carbonara.patched.some

\* the DA2 region without its last sig_len bytes
Unsigned(region) ==
    [i \in 1..(IF Len(region.data) > region.sig_len
               THEN Len(region.data) - region.sig_len ELSE 0) |-> region.data[i]]

\* C26: when the DA2 patch step of upload_da fails or yields no patched
\* region, upload_da does not fail because of it: boot_to is called, with the
\* DA2 region less its sig_len last bytes, and upload_da returns Ok when
\* boot_to and the steps after it succeed; a patch attempt that failed leaves
\* the DA entry of the protocol as it was.
C26_PatchFallback ==
    IsUpload =>
        LET a == fn_call.arg
            r == fn_ret.val
        IN  /\ PatchFailed =>
                   /\ Len(r.boot_to) = 1
                   /\ r.boot_to[1].addr = r.da.regions[3].addr
                   /\ r.boot_to[1].data = Unsigned(r.da.regions[3])
                   /\ (a.env.boot_to = "Ok(true)" /\ a.env.rest) => r.ret = "Ok"
            /\ r.da # a.da =>
                   /\ a.file = "xflash"
                   /\ a.patch
                   /\ a.env.kamakiri.ok
                   /\ a.env.kamakiri.patched.some
            /\ (PatchFailed /\ ~(a.file = "xflash" /\ a.patch /\ a.env.kamakiri.ok)) =>
                   r.da = a.da

\* XFlash: both runners fail, the DA2 has a signature, and upload_da returns Ok
C26_Witness ==
    /\ IsUpload
    /\ fn_call.arg.file = "xflash"
    /\ PatchFailed
    /\ ~fn_call.arg.env.carbonara.ok
    /\ ~fn_call.arg.env.kamakiri.ok
    /\ fn_call.arg.da.regions[3].sig_len = 2
    /\ fn_ret.val.boot_to[1].data = <<5, 6>>
    /\ fn_ret.val.ret = "Ok"

IsPatch == fn_call.fn = "patch_da2" /\ fn_ret.done

HasBytes(data, bytes) ==
    \E at \in 0..(Len(data) - Len(bytes)) :
        \A i \in 1..Len(bytes) : data[at + i] = bytes[i]

\* the bytes of "cmd_boot_to"
CmdBootToText == <<99, 109, 100, 95, 98, 111, 111, 116, 95, 116, 111>>

----------------------------------------------------------------------------
(* USB backends: properties *)

PortTransfers == {"read_exact", "write_all", "ctrl_out", "ctrl_in"}

\* the call changed nothing, submitted nothing and returned Ok
UsbNoOp ==
    /\ usb_call.ret = "ok"
    /\ usb_call.transfers = <<>>
    /\ port = usb_call.before

\* C28: in every backend read_exact, write_all, ctrl_out and ctrl_in on a port
\* that is not open return an error and submit no transfer; open on an open
\* port and close on a closed port are no-ops that return Ok; after close the
\* port holds no claimed interface and no device handle.
C28_ClosedPort ==
    /\ (usb_call.op \in PortTransfers /\ ~usb_call.before.is_open)
          => (usb_call.ret = "err" /\ usb_call.transfers = <<>>)
    /\ (usb_call.op = "open" /\ usb_call.before.is_open) => UsbNoOp
    /\ (usb_call.op = "close" /\ ~usb_call.before.is_open) => UsbNoOp
    /\ usb_call.op = "close" => (Claimed(port) = {} /\ ~HoldsDevice(port))

----------------------------------------------------------------------------
(* Packet length: properties *)

WritePhase == {"write_cmd", "write_param", "write_chunk", "write_final"}
Negotiating == {"devctrl_cmd", "devctrl_sub", "devctrl_data"}

\* C30: get_packet_length takes the first u32 of the answer as the write size
\* and the second as the read size; the chunk size write_flash gets from
\* get_write_packet_length is the negotiated write size, never the read size;
\* and a negotiated size is cached: GetPacketLength is issued only while no
\* write size has been negotiated.
C30_PacketLength ==
    /\ write_packet_length # NoLen => write_packet_length = dev_pkt
    /\ read_packet_length # NoLen => read_packet_length = dev_pkt + 1
    /\ xf_pc \in WritePhase => chunk_size = dev_pkt
    /\ xf_pc \in Negotiating => write_packet_length = NoLen

----------------------------------------------------------------------------
(* XFlash operations on the wire: properties *)

\* no operation runs and at least one has returned
WireReturned == w_pc = 0 /\ n_ops > 0

\* C29: when a public XFlash operation returns, every frame the device sent
\* for it has been read, the device waits for nothing more of it, and the host
\* has written nothing the device did not expect; hence no operation reads a
\* frame that was sent for an earlier one.
C29_Drained ==
    /\ WireReturned => (da_out = <<>> /\ da_st.at = "idle")
    /\ ~stray
    /\ ~misread


(***************************************************************************)
(* Partial writes                                                          *)
(***************************************************************************)
\* a write_flash that returned Err after send_data went through for at least
\* one chunk (pos is bytes_written)
PartialWriteFailed ==
    /\ xf_pc = "done"
    /\ xf_ret = "err"
    /\ xf_call.kind \in {"write_partition", "write_offset"}
    /\ pos >= 1

\* C31: a write_flash that fails after at least one chunk has been sent
\* returns an error that carries the number of bytes written together with
\* the underlying error.
C31_PartialWrite ==
    PartialWriteFailed =>
        /\ xf_err.kind \in {"io", "xflash"}
        /\ "bytes_written" \in DOMAIN xf_err
        /\ xf_err.bytes_written = pos


(***************************************************************************)
(* Connection: get_soc_id and get_meid                                     *)
(***************************************************************************)
\* get_soc_id or get_meid has returned; its port calls are the echo (1, 2),
\* the timed read of the length prefix (3), the payload (4), the status (5)
IdReturned ==
    /\ conn_cmd.name \in {"get_soc_id", "get_meid"}
    /\ conn_ret # "none"
    /\ Len(conn_log) >= 3

\* C32: when the 4-byte length prefix of get_soc_id / get_meid does not arrive
\* in time the call returns Ok with an empty vector; a transport error on that
\* read is returned as an error; when the prefix arrives the call returns Ok
\* exactly when the payload and a zero status word were read, and then returns
\* the payload, whose length is the prefix read big-endian.
C32_IdLength ==
    IdReturned =>
        /\ conn_log[3].elapsed =>
                (conn_ret = "ok" /\ conn_val = <<>> /\ Len(conn_log) = 3)
        /\ (~conn_log[3].elapsed /\ ~conn_log[3].ok) =>
                (conn_ret = "err" /\ Len(conn_log) = 3)
        /\ conn_log[3].ok =>
                /\ conn_ret = "ok" <=>
                        /\ Len(conn_log) = 5
                        /\ conn_log[4].ok
                        /\ conn_log[5].ok
                        /\ from_le_bytes(conn_log[5].data) = 0
                /\ conn_ret = "ok" =>
                        /\ conn_val = conn_log[4].data
                        /\ Len(conn_val) = from_be_bytes(conn_log[3].data)

\* the prefix arrived and a payload of two bytes was returned
C32_Witness ==
    /\ IdReturned
    /\ conn_cmd.name = "get_meid"
    /\ conn_log[3].ok
    /\ conn_ret = "ok"
    /\ Len(conn_val) = 2


(***************************************************************************)
(* Connection: byte order of the commands                                  *)
(***************************************************************************)
\* a 32-bit and a 16-bit value, most significant byte first
BigEndian4(x) == <<x \div 16777216, (x \div 65536) % 256, (x \div 256) % 256, x % 256>>

ValueOfBigEndian(d) ==
    IF Len(d) = 2 THEN d[1] * 256 + d[2]
    ELSE d[1] * 16777216 + d[2] * 65536 + d[3] * 256 + d[4]

LittleEndian4(x) == <<x % 256, (x \div 256) % 256, (x \div 65536) % 256, x \div 16777216>>

\* the 16-bit status word read least significant byte first
StatusWordLE(d) == d[1] + d[2] * 256

\* C33: get_hw_code returns its two payload bytes as a big-endian u16 and
\* get_target_config its four payload bytes as a big-endian u32, each only
\* after a zero little-endian status; send_da writes the load address, the
\* length and the signature length, in this order, each as four big-endian
\* bytes; jump_da writes the address as four little-endian bytes and returns
\* an error for a non-zero little-endian status; with target_config = 7 the
\* SBC, SLA and DAA flags are all true.
C33_ByteOrder ==
    /\ conn_cmd.name \in {"get_hw_code", "get_target_config"} =>
        /\ conn_ret = "ok" =>
            /\ Len(conn_log) = 4
            /\ Len(conn_log[3].data) = (IF conn_cmd.name = "get_hw_code" THEN 2 ELSE 4)
            /\ conn_val = <<ValueOfBigEndian(conn_log[3].data)>>
            /\ StatusWordLE(conn_log[4].data) = 0
        /\ (Len(conn_log) = 4 /\ conn_log[4].ok /\ StatusWordLE(conn_log[4].data) # 0) =>
            conn_ret = "err"
    /\ (conn_cmd.name = "get_target_config" /\ conn_ret = "ok") =>
        /\ sbc_enabled(conn_val[1]) = (conn_log[3].data[4] % 2 = 1)
        /\ conn_val[1] = 7 =>
            (sbc_enabled(7) /\ sla_enabled(7) /\ daa_enabled(7))
        /\ conn_log[3].data = <<0, 0, 0, 7>> =>
            /\ sbc_enabled(conn_val[1])
            /\ sla_enabled(conn_val[1])
            /\ daa_enabled(conn_val[1])
    /\ conn_cmd.name = "send_da" =>
        /\ Len(conn_log) >= 3 => conn_log[3].data = BigEndian4(conn_cmd.address)
        /\ Len(conn_log) >= 5 => conn_log[5].data = BigEndian4(conn_cmd.size)
        /\ Len(conn_log) >= 7 => conn_log[7].data = BigEndian4(conn_cmd.sig_len)
        /\ \A i \in {3, 5, 7} : Len(conn_log) >= i => conn_log[i].op = "write_all"
    /\ conn_cmd.name = "jump_da" =>
        /\ Len(conn_log) >= 3 =>
            /\ conn_log[3].op = "write_all"
            /\ conn_log[3].data = LittleEndian4(conn_cmd.address)
        /\ (Len(conn_log) = 5 /\ conn_log[5].ok /\ StatusWordLE(conn_log[5].data) # 0) =>
            conn_ret = "err"
        /\ conn_ret = "ok" => (Len(conn_log) = 5 /\ StatusWordLE(conn_log[5].data) = 0)

\* get_target_config has returned 7
C33_Witness ==
    /\ conn_cmd.name = "get_target_config"
    /\ conn_ret = "ok"
    /\ conn_val = <<7>>
    /\ conn_log[3].data = <<0, 0, 0, 7>>


(***************************************************************************)
(* XFlash register access                                                  *)
(***************************************************************************)
\* the DA has sent the register value for the read32 in hand
ValueSent ==
    \/ \E i \in DOMAIN da_out : da_out[i].t = "data" /\ da_out[i].op = w_op.id
    \/ (w_regs["resp"].ok /\ w_regs["resp"].len = 4)

\* C34: without extensions read32 sends DeviceCtrl, DeviceCtrlReadRegister and
\* the address and returns as success the register value the DA answers
\* with; write32 sends DeviceCtrl, SetRegisterValue and address and value, and
\* returns success when the DA took them.
C34_RegisterAccess ==
    /\ (w_op.name = "read32" /\ w_pc = 0 /\ w_ret # "none") =>
            (w_ret = "ok" <=> ValueSent)
    /\ (w_op.name = "write32" /\ w_pc = 0 /\ w_ret = "ok" /\ n_ops = 1) =>
            (da_out = <<>> /\ ~stray /\ da_st.at = "idle")


(***************************************************************************)
(* read_flash: the loop                                                    *)
(***************************************************************************)
\* the bytes of the frames read so far, in the order of their arrival
RECURSIVE RfDelivered(_)
RfDelivered(log) ==
    IF log = <<>> THEN <<>>
    ELSE IF Head(log).ev = "read_data" /\ Head(log).ok
         THEN Head(log).data \o RfDelivered(Tail(log))
         ELSE RfDelivered(Tail(log))

RfFrame(e) == e.ev = "read_data" /\ e.ok /\ e.data # <<>>

\* C35: read_flash repeats one step: it reads one data frame; an empty frame
\* ends the loop with no acknowledgement; any other frame is delivered and
\* followed by exactly one 4-byte acknowledgement before anything else is
\* read; the loop ends as soon as the bytes read reach the size; no frame is
\* acknowledged twice and the frames are delivered in their order.
C35_ReadLoop ==
    /\ \A i \in DOMAIN rf_log :
        /\ RfFrame(rf_log[i]) =>
            /\ i < Len(rf_log)
            /\ rf_log[i + 1] \in {RfAck(TRUE), RfAck(FALSE)}
        /\ (rf_log[i].ev = "read_data" /\ ~RfFrame(rf_log[i])) =>
            /\ i = Len(rf_log)
            /\ xf_pc = "done"
            /\ xf_ret = (IF rf_log[i].ok THEN "ok" ELSE "err")
        /\ rf_log[i].ev = "ack" =>
            /\ i > 1
            /\ RfFrame(rf_log[i - 1])
            /\ rf_log[i].ok => (i < Len(rf_log) /\ rf_log[i + 1].ev = "get_status")
            /\ ~rf_log[i].ok => (i = Len(rf_log) /\ xf_ret = "err")
        /\ rf_log[i].ev = "get_status" => (i > 1 /\ rf_log[i - 1] = RfAck(TRUE))
        /\ (rf_log[i].ev = "read_data" /\ i > 1) =>
            /\ Len(RfDelivered(SubSeq(rf_log, 1, i - 1))) < xf_call.size
            /\ rf_log[i - 1].ev = "get_status"
            /\ rf_log[i - 1].ok
            /\ rf_log[i - 1].data = Zero32
    /\ xf_call.kind = "read_partition" => buffer = RfDelivered(rf_log)
    /\ xf_pc = "read_chunk" => Len(buffer) < xf_call.size
    /\ rf_log # <<>> => xf_call.kind = "read_partition"

\* a read of three bytes that took more than one frame and returned Ok
C35_Witness ==
    /\ xf_call.kind = "read_partition"
    /\ xf_pc = "done"
    /\ xf_ret = "ok"
    /\ Len(rf_log) >= 6
    /\ Len(buffer) = xf_call.size
    /\ rf_log[Len(rf_log)].ev = "get_status"


\* C36: whenever read_flash returns success the data it returns is exactly
\* `size` bytes long: not shorter after an early empty frame or a terminating
\* status, not longer after a last frame that goes past the size.
C36_ExactSize ==
    (xf_call.kind = "read_partition" /\ xf_pc = "done" /\ xf_ret = "ok") =>
        Len(buffer) = xf_call.size


(***************************************************************************)
(* Device: ownership of the Connection                                     *)
(***************************************************************************)
\* Device::get_connection: the Connection of the Device or of its protocol
get_connection ==
    IF connection = "Some" THEN "ok"
    ELSE IF protocol = "Some" THEN "ok"
    ELSE "err"

\* C37: between any two public operations the Device owns its Connection,
\* directly or inside its protocol, so that get_connection() succeeds; after
\* an init() that went to the port and returned an error the Connection is
\* still in the Device and init() can be called again.
C37_OwnsConnection ==
    /\ get_connection = "ok"
    /\ (last_op.name = "init" /\ last_op.ret = "err" /\ last_op.io) =>
            connection = "Some"


(***************************************************************************)
(* Device: DA mode                                                         *)
(***************************************************************************)
\* C38: whenever the connection type of the Device is Da, the storage of its
\* DeviceInfo is set and its partitions are loaded; an enter_da_mode that
\* fails after the DA was uploaded does not leave the connection type Da.
\* (connection_type is the type the port was found with; a port found in DA
\* mode is left aside)
C38_DaModeComplete ==
    /\ (conn_type = "Da" /\ connection_type # "Da") =>
            (dev_info.storage # "None" /\ dev_info.partitions # <<>>)
    /\ (last_op.ret = "err" /\ last_op.upload /\ ~last_op.entered_before) =>
            conn_type # "Da"


(***************************************************************************)
(* Chunked loops: termination                                              *)
(***************************************************************************)
\* C39: the chunk loop of write_flash terminates for every size and every
\* write packet length, 0 included: every turn that does not leave the loop
\* moves the position forward, so that the loop is left, with an error or
\* with the data sent, after at most `size` turns.
C39_LoopAdvances ==
    [][ (xf_pc = "write_chunk" /\ xf_pc' = "write_chunk") =>
            (pos' > pos /\ Len(wf_chunks') <= Len(actual_data)) ]_vars


(***************************************************************************)
(* DA container: malformed input                                           *)
(***************************************************************************)
\* C40: for every input of at least 0x148 bytes parse_da returns a value, Ok
\* or Err, and never aborts on a slice out of range or on an integer
\* overflow or underflow: an entry count the file cannot hold, a region count
\* the entry cannot hold, a region whose offset + length lies beyond the file
\* or overflows 32 bits, a sig_len above the length.
C40_NoAbort ==
    (fn_call.fn = "parse_da.slices" /\ fn_ret.done /\ fn_call.arg.len >= 328) =>
        fn_ret.val \in {"ok", "err"}

====
